---- MODULE Spec2Model ----
(***************************************************************************)
(* dmarquees: DRM marquee daemon (src/dmarquees.c with src/helpers.c).     *)
(*                                                                         *)
(* The daemon owns one dumb framebuffer, draws marquee images into its     *)
(* bottom half on commands read from a FIFO, and takes DRM master only     *)
(* transiently (set master, set CRTC, drop master) so that a peer process  *)
(* (the emulator) can own the display.                                     *)
(*                                                                         *)
(* Spec is the daemon.  SurfaceSpec, OutputSpec and BlitSpec call the      *)
(* surface functions, find_connector_mode and the scaler on their own, on  *)
(* inputs main does not reach.                                             *)
(*                                                                         *)
(* A step of main() is initialize(), one iteration of the                  *)
(* while (running) loop (FIFO open failure, empty read, or a read that     *)
(* delivered bytes), the loop exit, and the cleanup block.  The C          *)
(* functions are operators from a state record to a state record; an       *)
(* action applies them to the current state and installs the result.       *)
(* Strings are sequences of one-character strings, so that strcmp is       *)
(* equality of sequences and trim works on characters.                     *)
(***************************************************************************)
EXTENDS Integers, Sequences, FiniteSets, TLC

VARIABLES
    pc,                     \* position in main(): start, loop (at the test of the
                            \* while), open (in the open of the FIFO, which returns
                            \* when a writer opens it), cleanup, done, failed
    running,                \* static volatile bool running
    dumb_handle,            \* static uint32_t dumb_handle (0 = none)
    fb_id,                  \* static uint32_t fb_id (0 = none)
    fb_map,                 \* static void* fb_map ("NULL" or "mapped")
    g_is_master,            \* static bool g_is_master
    g_frontend_mode,        \* FrontendMode g_frontend_mode
    g_needs_crtc_reset,     \* static bool g_needs_crtc_reset
    g_last_crtc_error_log,  \* static time_t g_last_crtc_error_log
    g_current_image_path,   \* static char g_current_image_path[512]
    g_ra_init_hold_start,   \* static time_t g_ra_init_hold_start
    g_in_ra_init_hold,      \* static bool g_in_ra_init_hold
    prev_master_held,       \* static bool prev_master_held (local static of main)
    conn_id,                \* static uint32_t conn_id
    crtc_id,                \* static uint32_t crtc_id
    chosen_mode,            \* static drmModeModeInfo chosen_mode
    fb,                     \* contents of the bottom half of the mapped buffer
    now,                    \* the clock read by time(NULL), in seconds
    master,                 \* kernel fact: who holds DRM master: none, self, peer
    res,                    \* kernel fact: what drmModeGetResources, drmModeGetConnector
                            \* and drmModeGetEncoder return
    blit,                   \* what a call of the scaler on its own read: its sizes and the
                            \* source columns and rows it indexed
    kernel,                 \* kernel facts about the surface: the dumb buffer is allocated
                            \* (bo), it is mapped into the process (map), it is registered
                            \* as a framebuffer (fb)
    held_seen,              \* history: a probe of the holdoff now in force has found the
                            \* master held (prev_master_held may date from an earlier one)
    calls,                  \* what the step of main just taken did, in order: the calls it made
                            \* (DRM, file lookups, memset, blit) and their results
    step                    \* what the step of main just taken was: kind, bytes read, token,
                            \* command type, whether a command found the holdoff in
                            \* force and which frontend mode it found, and the clock
                            \* readings of the failure messages try_reset_crtc wrote

vars == <<pc, running, dumb_handle, fb_id, fb_map, g_is_master, g_frontend_mode,
          g_needs_crtc_reset, g_last_crtc_error_log, g_current_image_path,
          g_ra_init_hold_start, g_in_ra_init_hold, prev_master_held,
          conn_id, crtc_id, chosen_mode, fb, now,
          master, res, blit, kernel, held_seen, calls, step>>

----------------------------------------------------------------------------
(* Program constants *)

PREFERRED_W == 1920
PREFERRED_H == 1080
ERROR_LOG_THROTTLE_SEC == 1
RA_INIT_HOLD_SEC == 5

(* Bound of the model: the clock stops advancing at MaxTime. *)
MaxTime == 6

(* enum FrontendMode *)
eNA == "eNA"
eSA == "eSA"
eRA == "eRA"

(* enum CommandType; CMD_RESET is returned by toCommandType in helpers.c   *)
(* but is not an enumerator of helpers.h and has no case in main's switch. *)
CMD_EXIT == "CMD_EXIT"
CMD_CLEAR == "CMD_CLEAR"
CMD_RA == "CMD_RA"
CMD_SA == "CMD_SA"
CMD_NA == "CMD_NA"
CMD_ROM == "CMD_ROM"
CMD_RESET == "CMD_RESET"

(* Default marquee names *)
DEF_MARQUEE_NAME == <<"R","e","t","r","o","P","i","e","M","a","r","q","u","e","e">>
DEF_RA_MARQUEE_NAME == <<"R","e","t","r","o","A","r","c","h","_","l","o","g","o">>
DEF_SA_MARQUEE_NAME == <<"M","A","M","E","L","o","g","o","R">>

(* Image directories, as tags of the image drawn *)
IMAGE_DIR == "IMAGE_DIR"
DEF_MARQUEE_DIR == "DEF_MARQUEE_DIR"

(* The bottom half cleared to black by memset *)
Black == <<"black", <<>>>>

(* The bottom half filled by scale_and_blit_to_xrgb with dir/name.png: the  *)
(* blit region is the full width and every row from dest_y to the bottom.  *)
Image(dir, name) == <<dir, name>>

----------------------------------------------------------------------------
(* Strings *)

isspace(c) == c \in {" ", "\t", "\n", "\r", "\f"}

RECURSIVE TrimRight(_)
TrimRight(s) ==
    IF Len(s) > 0 /\ isspace(s[Len(s)])
    THEN TrimRight(SubSeq(s, 1, Len(s) - 1))
    ELSE s

RECURSIVE TrimLeft(_)
TrimLeft(s) ==
    IF Len(s) > 0 /\ isspace(s[1])
    THEN TrimLeft(SubSeq(s, 2, Len(s)))
    ELSE s

(* trim: strip trailing then leading whitespace; NULL (here the empty       *)
(* string, main tests cmd && strlen(cmd)) when nothing is left.  len is    *)
(* taken as strlen(s) + 1, for which s[--len] = '\0' rewrites the          *)
(* terminator main has already stored at buf[n].                           *)
trim(s) == TrimLeft(TrimRight(s))

tEXIT == <<"E","X","I","T">>
tCLEAR == <<"C","L","E","A","R">>
tRA == <<"R","A">>
tSA == <<"S","A">>
tNA == <<"N","A">>
tRESET == <<"R","E","S","E","T">>

(* toCommandType: strcmp against the six tokens, anything else is a ROM *)
toCommandType(s) ==
    IF s = tEXIT THEN CMD_EXIT
    ELSE IF s = tCLEAR THEN CMD_CLEAR
    ELSE IF s = tRA THEN CMD_RA
    ELSE IF s = tSA THEN CMD_SA
    ELSE IF s = tNA THEN CMD_NA
    ELSE IF s = tRESET THEN CMD_RESET
    ELSE CMD_ROM

(* default_marquee_name_for *)
default_marquee_name_for(m) ==
    IF m = eSA THEN DEF_SA_MARQUEE_NAME
    ELSE IF m = eRA THEN DEF_RA_MARQUEE_NAME
    ELSE DEF_MARQUEE_NAME

----------------------------------------------------------------------------
(* The state as a record, and its installation as the next state *)

S == [pc |-> pc, running |-> running, dumb_handle |-> dumb_handle,
      fb_id |-> fb_id, fb_map |-> fb_map, g_is_master |-> g_is_master,
      g_frontend_mode |-> g_frontend_mode,
      g_needs_crtc_reset |-> g_needs_crtc_reset,
      g_last_crtc_error_log |-> g_last_crtc_error_log,
      g_current_image_path |-> g_current_image_path,
      g_ra_init_hold_start |-> g_ra_init_hold_start,
      g_in_ra_init_hold |-> g_in_ra_init_hold,
      prev_master_held |-> prev_master_held,
      conn_id |-> conn_id, crtc_id |-> crtc_id, chosen_mode |-> chosen_mode,
      fb |-> fb, now |-> now,
      master |-> master, res |-> res, blit |-> blit, kernel |-> kernel,
      calls |-> calls, step |-> step]

Install(r) ==
    /\ pc' = r.pc
    /\ running' = r.running
    /\ dumb_handle' = r.dumb_handle
    /\ fb_id' = r.fb_id
    /\ fb_map' = r.fb_map
    /\ g_is_master' = r.g_is_master
    /\ g_frontend_mode' = r.g_frontend_mode
    /\ g_needs_crtc_reset' = r.g_needs_crtc_reset
    /\ g_last_crtc_error_log' = r.g_last_crtc_error_log
    /\ g_current_image_path' = r.g_current_image_path
    /\ g_ra_init_hold_start' = r.g_ra_init_hold_start
    /\ g_in_ra_init_hold' = r.g_in_ra_init_hold
    /\ prev_master_held' = r.prev_master_held
    /\ conn_id' = r.conn_id
    /\ crtc_id' = r.crtc_id
    /\ chosen_mode' = r.chosen_mode
    /\ fb' = r.fb
    /\ now' = r.now
    /\ master' = r.master
    /\ res' = r.res
    /\ blit' = r.blit
    /\ kernel' = r.kernel
    /\ held_seen' =
           IF ~r.g_in_ra_init_hold THEN FALSE
           ELSE IF \E i \in DOMAIN r.calls : r.calls[i].call = "hold" THEN FALSE
           ELSE IF \E i \in DOMAIN r.calls :
                       r.calls[i] = [fn |-> "is_drm_master_held_by_other",
                                    call |-> "drmSetMaster", ret |-> FALSE]
                THEN TRUE
           ELSE held_seen
    /\ calls' = r.calls
    /\ step' = r.step

NoStep(kind) == [kind |-> kind, buf |-> <<>>, cmd |-> <<>>, ctype |-> "none",
                 held |-> FALSE, mode |-> "none", logs |-> <<>>]

(* No step of main is on record *)
Idle == step.kind = "idle"

(* The record of a step of main starts empty *)
Begin(s, kind) ==
    [s EXCEPT !.calls = <<>>, !.step = NoStep(kind)]

----------------------------------------------------------------------------
(* The calls a step makes are recorded in calls: fn is the calling         *)
(* function, call the callee, ret whether it succeeded (for a predicate,   *)
(* what it answered).                                                      *)
Called(s, fn, call, ret) ==
    [s EXCEPT !.calls = Append(@, [fn |-> fn, call |-> call, ret |-> ret])]

(* The DRM calls.  Each returns the state after the call and the call's    *)
(* outcome; ok is the outcome the environment allows.                      *)

(* drmSetMaster succeeds when this process is already master, or when      *)
(* nobody is and the kernel grants it; it fails while the peer is master.  *)
drmSetMaster(s, fn, ok) ==
    LET succ == s.master = "self" \/ (s.master = "none" /\ ok)
    IN [st |-> [Called(s, fn, "drmSetMaster", succ)
                    EXCEPT !.master = IF succ THEN "self" ELSE @],
        ret |-> succ]

(* drmDropMaster succeeds only for the master; on failure nothing changes. *)
drmDropMaster(s, fn, ok) ==
    LET succ == s.master = "self" /\ ok
    IN [st |-> [Called(s, fn, "drmDropMaster", succ)
                    EXCEPT !.master = IF succ THEN "none" ELSE @],
        ret |-> succ]

(* drmModeSetCrtc is a master-only ioctl and may fail for the master too.  *)
drmModeSetCrtc(s, fn, ok) ==
    LET succ == s.master = "self" /\ ok
    IN [st |-> Called(s, fn, "drmModeSetCrtc", succ), ret |-> succ]

----------------------------------------------------------------------------
(* Arbitration: src/dmarquees.c *)

(* The ts_perror of try_reset_crtc as it would be without the test of the  *)
(* time of the last message: C31 depends on the throttle.                  *)
log_crtc_error_unthrottled(s, t) ==
    [s EXCEPT !.g_last_crtc_error_log = t, !.step.logs = Append(@, t)]

(* The throttled ts_perror of try_reset_crtc: a message is written         *)
(* (step.logs takes the clock reading t of the call), and its time         *)
(* recorded, only when the last one is at least the throttle window old.   *)
log_crtc_error(s, t) ==
    IF t - s.g_last_crtc_error_log >= ERROR_LOG_THROTTLE_SEC
    THEN [s EXCEPT !.g_last_crtc_error_log = t, !.step.logs = Append(@, t)]
    ELSE s

(* The probe as it would be without its drmDropMaster: C1 depends on the   *)
(* release in the probe.                                                   *)
is_drm_master_held_by_other_no_drop(s, e) ==
    LET a == drmSetMaster(s, "is_drm_master_held_by_other", e.pset)
    IN IF a.ret
       THEN [st |-> [a.st EXCEPT !.g_is_master = FALSE], ret |-> FALSE]
       ELSE [st |-> a.st, ret |-> TRUE]

(* is_drm_master_held_by_other: e.pset, e.pdrop are the outcomes the       *)
(* environment allows for its two calls.  The result of drmDropMaster is   *)
(* not looked at.                                                          *)
is_drm_master_held_by_other(s, e) ==
    LET a == drmSetMaster(s, "is_drm_master_held_by_other", e.pset)
    IN IF a.ret
       THEN LET d == drmDropMaster(a.st, "is_drm_master_held_by_other", e.pdrop)
            IN [st |-> [d.st EXCEPT !.g_is_master = FALSE], ret |-> FALSE]
       ELSE [st |-> a.st, ret |-> TRUE]

(* try_reset_crtc as it would be with a return on the failed commit: C2    *)
(* depends on the release being reached on that path.                      *)
try_reset_crtc_return_on_failure(s, e) ==
    LET t == s.now
        a == drmSetMaster(s, "try_reset_crtc", e.set)
    IN IF ~a.ret
       THEN [st |-> log_crtc_error(a.st, t), ret |-> FALSE]
       ELSE LET s1 == [a.st EXCEPT !.g_is_master = TRUE]
                c == drmModeSetCrtc(s1, "try_reset_crtc", e.crtc)
            IN IF ~c.ret
               THEN [st |-> log_crtc_error(c.st, t), ret |-> FALSE]
               ELSE LET s2 == [c.st EXCEPT !.g_needs_crtc_reset = FALSE]
                        d == drmDropMaster(s2, "try_reset_crtc", e.drop)
                        s3 == IF ~d.ret
                              THEN log_crtc_error(d.st, t)
                              ELSE [d.st EXCEPT !.g_is_master = FALSE]
                    IN [st |-> s3, ret |-> TRUE]

(* try_reset_crtc as it would be if it went on to the commit after a       *)
(* failed drmSetMaster, as initialize() does: C26 depends on the return.   *)
try_reset_crtc_commit_regardless(s, e) ==
    LET t == s.now
        a == drmSetMaster(s, "try_reset_crtc", e.set)
        s1 == IF ~a.ret
              THEN log_crtc_error(a.st, t)
              ELSE [a.st EXCEPT !.g_is_master = TRUE]
        c == drmModeSetCrtc(s1, "try_reset_crtc", e.crtc)
        s2 == IF ~c.ret
              THEN log_crtc_error(c.st, t)
              ELSE [c.st EXCEPT !.g_needs_crtc_reset = FALSE]
        d == drmDropMaster(s2, "try_reset_crtc", e.drop)
        s3 == IF ~d.ret
              THEN log_crtc_error(d.st, t)
              ELSE [d.st EXCEPT !.g_is_master = FALSE]
    IN [st |-> s3, ret |-> c.ret]

(* try_reset_crtc as it would be with a second drmSetMaster after a failed *)
(* one: C27 depends on the immediate return.                               *)
try_reset_crtc_retrying(s, e) ==
    LET t == s.now
        a0 == drmSetMaster(s, "try_reset_crtc", e.set)
        a == IF a0.ret THEN a0 ELSE drmSetMaster(a0.st, "try_reset_crtc", e.set)
    IN IF ~a.ret
       THEN [st |-> log_crtc_error(a.st, t), ret |-> FALSE]
       ELSE LET s1 == [a.st EXCEPT !.g_is_master = TRUE]
                c == drmModeSetCrtc(s1, "try_reset_crtc", e.crtc)
                s2 == IF ~c.ret
                      THEN log_crtc_error(c.st, t)
                      ELSE [c.st EXCEPT !.g_needs_crtc_reset = FALSE]
                d == drmDropMaster(s2, "try_reset_crtc", e.drop)
                s3 == IF ~d.ret
                      THEN log_crtc_error(d.st, t)
                      ELSE [d.st EXCEPT !.g_is_master = FALSE]
            IN [st |-> s3, ret |-> c.ret]

(* try_reset_crtc: e.set, e.crtc, e.drop are the outcomes the environment  *)
(* allows for its three calls.                                             *)
try_reset_crtc(s, e) ==
    LET t == s.now
        a == drmSetMaster(s, "try_reset_crtc", e.set)
    IN IF ~a.ret
       THEN [st |-> log_crtc_error(a.st, t), ret |-> FALSE]
       ELSE LET s1 == [a.st EXCEPT !.g_is_master = TRUE]
                c == drmModeSetCrtc(s1, "try_reset_crtc", e.crtc)
                s2 == IF ~c.ret
                      THEN log_crtc_error(c.st, t)
                      ELSE [c.st EXCEPT !.g_needs_crtc_reset = FALSE]
                d == drmDropMaster(s2, "try_reset_crtc", e.drop)
                s3 == IF ~d.ret
                      THEN log_crtc_error(d.st, t)
                      ELSE [d.st EXCEPT !.g_is_master = FALSE]
            IN [st |-> s3, ret |-> c.ret]

(* handle_fb_update_for_ra_mode as it would be without the assignment of   *)
(* g_needs_crtc_reset: C32 depends on the two flags being set together.    *)
handle_fb_update_hold_only(s, image_description) ==
    IF s.g_frontend_mode = eRA /\ ~s.g_is_master
    THEN [Called(s, "handle_fb_update_for_ra_mode", "hold", TRUE)
              EXCEPT !.g_current_image_path = image_description,
                     !.g_ra_init_hold_start = s.now,
                     !.g_in_ra_init_hold = TRUE]
    ELSE s

(* handle_fb_update_for_ra_mode as it would be without the test of the     *)
(* mode: C4 depends on the holdoff being armed in RA mode only.            *)
handle_fb_update_any_mode(s, image_description) ==
    IF ~s.g_is_master
    THEN [Called(s, "handle_fb_update_for_ra_mode", "hold", TRUE)
              EXCEPT !.g_current_image_path = image_description,
                     !.g_ra_init_hold_start = s.now,
                     !.g_in_ra_init_hold = TRUE,
                     !.g_needs_crtc_reset = TRUE]
    ELSE s

(* handle_fb_update_for_ra_mode as it would be without the test of         *)
(* g_is_master: C7 depends on that test.                                   *)
handle_fb_update_ignoring_master(s, image_description) ==
    IF s.g_frontend_mode = eRA
    THEN [Called(s, "handle_fb_update_for_ra_mode", "hold", TRUE)
              EXCEPT !.g_current_image_path = image_description,
                     !.g_ra_init_hold_start = s.now,
                     !.g_in_ra_init_hold = TRUE,
                     !.g_needs_crtc_reset = TRUE]
    ELSE s

(* handle_fb_update_for_ra_mode as it would be without the snprintf into   *)
(* g_current_image_path: C8 depends on the pending name being replaced.    *)
handle_fb_update_keeping_path(s, image_description) ==
    IF s.g_frontend_mode = eRA /\ ~s.g_is_master
    THEN [Called(s, "handle_fb_update_for_ra_mode", "hold", TRUE)
              EXCEPT !.g_ra_init_hold_start = s.now,
                     !.g_in_ra_init_hold = TRUE,
                     !.g_needs_crtc_reset = TRUE]
    ELSE s

(* handle_fb_update_for_ra_mode *)
handle_fb_update_for_ra_mode(s, image_description) ==
    IF s.g_frontend_mode = eRA /\ ~s.g_is_master
    THEN [Called(s, "handle_fb_update_for_ra_mode", "hold", TRUE)
              EXCEPT !.g_current_image_path = image_description,
                     !.g_ra_init_hold_start = s.now,
                     !.g_in_ra_init_hold = TRUE,
                     !.g_needs_crtc_reset = TRUE]
    ELSE s

(* show_default_marquee as it would be without the memset of the bottom   *)
(* half: C12 depends on the clear before the load.                         *)
show_default_marquee_no_clear(s, loaded) ==
    IF s.fb_map = "NULL"
    THEN s
    ELSE LET name == default_marquee_name_for(s.g_frontend_mode)
             l == Called(s, "show_default_marquee", "load_png_rgba", loaded)
         IN IF ~loaded
            THEN l
            ELSE handle_fb_update_for_ra_mode(
                     [Called(l, "show_default_marquee", "scale_and_blit_to_xrgb", TRUE)
                          EXCEPT !.fb = Image(DEF_MARQUEE_DIR, name)],
                     name)

(* show_default_marquee: loaded is whether load_png_rgba returns pixels    *)
(* for the default image of the current mode.                              *)
show_default_marquee(s, loaded) ==
    IF s.fb_map = "NULL"
    THEN s
    ELSE LET name == default_marquee_name_for(s.g_frontend_mode)
             cleared == [Called(s, "show_default_marquee", "memset", TRUE)
                             EXCEPT !.fb = Black]
             l == Called(cleared, "show_default_marquee", "load_png_rgba", loaded)
         IN IF ~loaded
            THEN l
            ELSE handle_fb_update_for_ra_mode(
                     [Called(l, "show_default_marquee", "scale_and_blit_to_xrgb", TRUE)
                          EXCEPT !.fb = Image(DEF_MARQUEE_DIR, name)],
                     name)

----------------------------------------------------------------------------
(* The scaler: src/helpers.c, src/dmarquees-1.1.1.c, src/dmarquees-org.c *)

(* int is 32 bits wide.  A product or sum that does not fit is undefined   *)
(* in C; the multiply and add instructions of the targets leave the low    *)
(* 32 bits, which is the outcome taken here.                               *)
INT_MAX == 2147483647
INT_MIN == -INT_MAX - 1

(* a + b in int *)
add_int(a, b) ==
    IF a >= 0 /\ b >= 0 /\ a > INT_MAX - b
    THEN (a - INT_MAX - 1) + (b - INT_MAX - 1)
    ELSE IF a < 0 /\ b < 0 /\ a < INT_MIN - b
    THEN (a + INT_MAX + 1) + (b + INT_MAX + 1)
    ELSE a + b

(* a * b in int, for a >= 0 and b > 0: a loop index times a source size.  *)
(* The product that does not fit is built from wrapping sums.              *)
RECURSIVE mul_int(_, _)
mul_int(a, b) ==
    IF a <= INT_MAX \div b THEN a * b
    ELSE LET h == mul_int(a \div 2, b)
             d == add_int(h, h)
         IN IF a % 2 = 1 THEN add_int(d, b) ELSE d

(* a / b in int, for b > 0: the quotient truncated towards zero *)
div_int(a, b) ==
    IF a >= 0 \/ a % b = 0 THEN a \div b ELSE (a \div b) + 1

(* No call of the scaler on record; of a call, the function, the source    *)
(* size, the width and height of the rectangle drawn, and the source       *)
(* columns and rows indexed                                                *)
NoBlit == [fn |-> "none", src_w |-> 0, src_h |-> 0, w |-> 0, h |-> 0,
           xs |-> {}, ys |-> {}]

(* scale_and_blit_to_xrgb as it would be if it kept the aspect ratio of    *)
(* the source, drawing no more rows than the width scaled allows: C22      *)
(* depends on the region being filled whatever the source size.            *)
scale_and_blit_to_xrgb_keeping_aspect(src_w, src_h, dst_w, dst_h, dest_x, dest_y) ==
    LET dst_x0 == IF dest_x >= 0 THEN dest_x ELSE 0
        dst_y0 == IF dest_y >= 0 THEN dest_y ELSE 0
        region_w == dst_w - dst_x0
        fit_h == div_int(mul_int(region_w, src_h), src_w)
        region_h == IF fit_h < dst_h - dst_y0 THEN fit_h ELSE dst_h - dst_y0
    IN IF region_w <= 0 \/ region_h <= 0
       THEN [fn |-> "scale_and_blit_to_xrgb", src_w |-> src_w, src_h |-> src_h,
             w |-> region_w, h |-> region_h, xs |-> {}, ys |-> {}]
       ELSE [fn |-> "scale_and_blit_to_xrgb", src_w |-> src_w, src_h |-> src_h,
             w |-> region_w, h |-> region_h,
             xs |-> { div_int(mul_int(x, src_w), region_w) : x \in 0..(region_w - 1) },
             ys |-> { div_int(mul_int(y, src_h), region_h) : y \in 0..(region_h - 1) }]

(* scale_and_blit_to_xrgb of helpers.c: the source columns src_x and rows  *)
(* src_y it indexes.                                                       *)
scale_and_blit_to_xrgb(src_w, src_h, dst_w, dst_h, dest_x, dest_y) ==
    LET dst_x0 == IF dest_x >= 0 THEN dest_x ELSE 0
        dst_y0 == IF dest_y >= 0 THEN dest_y ELSE 0
        region_w == dst_w - dst_x0
        region_h == dst_h - dst_y0
    IN IF region_w <= 0 \/ region_h <= 0
       THEN [fn |-> "scale_and_blit_to_xrgb", src_w |-> src_w, src_h |-> src_h,
             w |-> region_w, h |-> region_h, xs |-> {}, ys |-> {}]
       ELSE [fn |-> "scale_and_blit_to_xrgb", src_w |-> src_w, src_h |-> src_h,
             w |-> region_w, h |-> region_h,
             xs |-> { div_int(mul_int(x, src_w), region_w) : x \in 0..(region_w - 1) },
             ys |-> { div_int(mul_int(y, src_h), region_h) : y \in 0..(region_h - 1) }]

(* scale_and_blit_to_xrgb_region of dmarquees-1.1.1.c: as above over       *)
(* draw_w x draw_h, with the coordinate clamped to the last column or row  *)
(* when it is not below the size.                                          *)
scale_and_blit_to_xrgb_region(sw, sh, draw_w, draw_h) ==
    LET sx(x) == LET v == div_int(mul_int(x, sw), draw_w)
                 IN IF v >= sw THEN sw - 1 ELSE v
        sy(y) == LET v == div_int(mul_int(y, sh), draw_h)
                 IN IF v >= sh THEN sh - 1 ELSE v
    IN [fn |-> "scale_and_blit_to_xrgb_region", src_w |-> sw, src_h |-> sh,
        w |-> draw_w, h |-> draw_h,
        xs |-> IF draw_h > 0 THEN { sx(x) : x \in 0..(draw_w - 1) } ELSE {},
        ys |-> IF draw_w > 0 THEN { sy(y) : y \in 0..(draw_h - 1) } ELSE {}]

(* scale_and_blit_to_xrgb of dmarquees-org.c: the target is the full width *)
(* and half the height.                                                    *)
scale_and_blit_to_xrgb_org(sw, sh, dw, dh) ==
    LET target_w == dw
        target_h == dh \div 2
    IN [fn |-> "scale_and_blit_to_xrgb_org", src_w |-> sw, src_h |-> sh,
        w |-> target_w, h |-> target_h,
        xs |-> IF target_h > 0
               THEN { div_int(mul_int(tx, sw), target_w) : tx \in 0..(target_w - 1) }
               ELSE {},
        ys |-> IF target_w > 0
               THEN { div_int(mul_int(ty, sh), target_h) : ty \in 0..(target_h - 1) }
               ELSE {}]

----------------------------------------------------------------------------
(* Output selection: src/dmarquees.c *)

(* The kernel's answer is res: null when drmModeGetResources fails, else   *)
(* connectors, the answers of drmModeGetConnector in the order of          *)
(* res->connectors, and crtcs, res->crtcs.  A connector is null when the   *)
(* lookup fails, else it has its connection, its modes, its encoder_id and *)
(* the answer of drmModeGetEncoder for it (null, or the encoder's          *)
(* crtc_id).  The connector_id of the i-th connector is i.                 *)
DRM_MODE_CONNECTED == "DRM_MODE_CONNECTED"
DRM_MODE_DISCONNECTED == "DRM_MODE_DISCONNECTED"

(* chosen_mode as the static is initialised *)
NoMode == [hdisplay |-> 0, vdisplay |-> 0, vrefresh |-> 0]

(* The index of the first mode from m on that is PREFERRED_W x             *)
(* PREFERRED_H, 0 when there is none: the inner loop of the first pass.    *)
RECURSIVE first_preferred_mode(_, _)
first_preferred_mode(modes, m) ==
    IF m > Len(modes) THEN 0
    ELSE IF modes[m].hdisplay = PREFERRED_W /\ modes[m].vdisplay = PREFERRED_H
    THEN m
    ELSE first_preferred_mode(modes, m + 1)

(* The crtc chosen for a connector: that of its encoder when it has one,   *)
(* the lookup succeeds and the id is not 0, else the first crtc of the     *)
(* resources, else 0.                                                      *)
choose_crtc(r, conn) ==
    LET enc_crtc == IF conn.encoder_id # 0 /\ ~conn.encoder.null
                    THEN conn.encoder.crtc_id
                    ELSE 0
    IN IF enc_crtc = 0 /\ Len(r.crtcs) > 0 THEN r.crtcs[1] ELSE enc_crtc

(* The first pass, from connector i on: the first connected connector with *)
(* a preferred mode, and that mode.                                        *)
RECURSIVE preferred_pass(_, _)
preferred_pass(r, i) ==
    IF i > Len(r.connectors) THEN [ret |-> -1]
    ELSE LET conn == r.connectors[i]
         IN IF conn.null THEN preferred_pass(r, i + 1)
            ELSE IF conn.connection # DRM_MODE_CONNECTED THEN preferred_pass(r, i + 1)
            ELSE LET m == first_preferred_mode(conn.modes, 1)
                 IN IF m # 0
                    THEN [ret |-> 0, conn |-> i, crtc |-> choose_crtc(r, conn),
                          mode |-> conn.modes[m]]
                    ELSE preferred_pass(r, i + 1)

(* The second pass, from connector i on: the first connected connector     *)
(* with a mode, and its first mode.                                        *)
RECURSIVE fallback_pass(_, _)
fallback_pass(r, i) ==
    IF i > Len(r.connectors) THEN [ret |-> -1]
    ELSE LET conn == r.connectors[i]
         IN IF conn.null THEN fallback_pass(r, i + 1)
            ELSE IF conn.connection # DRM_MODE_CONNECTED THEN fallback_pass(r, i + 1)
            ELSE IF Len(conn.modes) = 0 THEN fallback_pass(r, i + 1)
            ELSE [ret |-> 0, conn |-> i, crtc |-> choose_crtc(r, conn),
                  mode |-> conn.modes[1]]

(* find_connector_mode as it would be without the first pass: C19 depends  *)
(* on the preference.                                                      *)
find_connector_mode_no_preference(s) ==
    IF s.res.null THEN [st |-> s, ret |-> -1]
    ELSE LET f == fallback_pass(s.res, 1)
         IN IF f.ret = 0
            THEN [st |-> [s EXCEPT !.conn_id = f.conn, !.crtc_id = f.crtc,
                                   !.chosen_mode = f.mode],
                  ret |-> 0]
            ELSE [st |-> s, ret |-> -1]

(* find_connector_mode: writes conn_id, crtc_id and chosen_mode when it    *)
(* returns 0.                                                              *)
find_connector_mode(s) ==
    IF s.res.null THEN [st |-> s, ret |-> -1]
    ELSE LET p == preferred_pass(s.res, 1)
             f == IF p.ret = 0 THEN p ELSE fallback_pass(s.res, 1)
         IN IF f.ret = 0
            THEN [st |-> [s EXCEPT !.conn_id = f.conn, !.crtc_id = f.crtc,
                                   !.chosen_mode = f.mode],
                  ret |-> 0]
            ELSE [st |-> s, ret |-> -1]

----------------------------------------------------------------------------
(* The surface: src/dmarquees.c *)

(* The kernel before any surface exists *)
NoSurface == [bo |-> FALSE, map |-> FALSE, fb |-> FALSE]

(* create_dumb_fb: failed names the call that fails, "none" when all       *)
(* succeed.  The handle and the framebuffer id the kernel hands out are    *)
(* taken as 1.                                                             *)
create_dumb_fb(s, failed) ==
    LET c == Called(s, "create_dumb_fb", "DRM_IOCTL_MODE_CREATE_DUMB",
                    failed # "CREATE_DUMB")
    IN IF failed = "CREATE_DUMB"
       THEN [st |-> c, ret |-> -1]
       ELSE
       LET s1 == [c EXCEPT !.dumb_handle = 1, !.kernel.bo = TRUE]
           m == Called(s1, "create_dumb_fb", "DRM_IOCTL_MODE_MAP_DUMB",
                       failed # "MAP_DUMB")
       IN IF failed = "MAP_DUMB"
          THEN [st |-> m, ret |-> -1]
          ELSE
          LET mm == Called(m, "create_dumb_fb", "mmap", failed # "mmap")
          IN IF failed = "mmap"
             THEN [st |-> [mm EXCEPT !.fb_map = "NULL"], ret |-> -1]
             ELSE
             LET s2 == [mm EXCEPT !.fb_map = "mapped", !.kernel.map = TRUE]
                 a == Called(s2, "create_dumb_fb", "drmModeAddFB",
                             failed # "drmModeAddFB")
             IN IF failed = "drmModeAddFB"
                THEN [st |-> [Called(a, "create_dumb_fb", "munmap", TRUE)
                                  EXCEPT !.fb_map = "NULL", !.kernel.map = FALSE],
                      ret |-> -1]
                ELSE [st |-> [a EXCEPT !.fb_id = 1, !.kernel.fb = TRUE],
                      ret |-> 0]

(* destroy_dumb_fb as it would be with the mapping dropped first: C30      *)
(* depends on the order of the three releases.                             *)
destroy_dumb_fb_unmap_first(s) ==
    LET s1 == IF s.fb_map # "NULL"
              THEN [Called(s, "destroy_dumb_fb", "munmap", s.kernel.map)
                        EXCEPT !.kernel.map = FALSE,
                               !.fb_map = "NULL", !.fb = <<"unmapped", <<>>>>]
              ELSE s
        s2 == IF s1.fb_id # 0
              THEN [Called(s1, "destroy_dumb_fb", "drmModeRmFB", s1.kernel.fb)
                        EXCEPT !.kernel.fb = FALSE, !.fb_id = 0]
              ELSE s1
        s3 == IF s2.dumb_handle # 0
              THEN [Called(s2, "destroy_dumb_fb", "DRM_IOCTL_MODE_DESTROY_DUMB",
                           s2.kernel.bo)
                        EXCEPT !.kernel.bo = FALSE, !.dumb_handle = 0]
              ELSE s2
    IN s3

(* destroy_dumb_fb as it would be without fb_id = 0 after drmModeRmFB:     *)
(* C16 depends on the id being dropped with the registration.              *)
destroy_dumb_fb_keeping_id(s) ==
    LET s1 == IF s.fb_id # 0
              THEN [Called(s, "destroy_dumb_fb", "drmModeRmFB", s.kernel.fb)
                        EXCEPT !.kernel.fb = FALSE]
              ELSE s
        s2 == IF s1.fb_map # "NULL"
              THEN [Called(s1, "destroy_dumb_fb", "munmap", s1.kernel.map)
                        EXCEPT !.kernel.map = FALSE,
                               !.fb_map = "NULL", !.fb = <<"unmapped", <<>>>>]
              ELSE s1
        s3 == IF s2.dumb_handle # 0
              THEN [Called(s2, "destroy_dumb_fb", "DRM_IOCTL_MODE_DESTROY_DUMB",
                           s2.kernel.bo)
                        EXCEPT !.kernel.bo = FALSE, !.dumb_handle = 0]
              ELSE s2
    IN s3

(* destroy_dumb_fb as it would be without the tests of the handles: C17    *)
(* depends on them.                                                        *)
destroy_dumb_fb_unguarded(s) ==
    LET s1 == [Called(s, "destroy_dumb_fb", "drmModeRmFB", s.kernel.fb)
                   EXCEPT !.kernel.fb = FALSE, !.fb_id = 0]
        s2 == [Called(s1, "destroy_dumb_fb", "munmap", s1.kernel.map)
                   EXCEPT !.kernel.map = FALSE,
                          !.fb_map = "NULL", !.fb = <<"unmapped", <<>>>>]
        s3 == [Called(s2, "destroy_dumb_fb", "DRM_IOCTL_MODE_DESTROY_DUMB",
                      s2.kernel.bo)
                   EXCEPT !.kernel.bo = FALSE, !.dumb_handle = 0]
    IN s3

(* destroy_dumb_fb: each release is made when its handle is set, and the   *)
(* handle is cleared after it; a release succeeds when the kernel has the  *)
(* resource, and its result is not looked at.                              *)
destroy_dumb_fb(s) ==
    LET s1 == IF s.fb_id # 0
              THEN [Called(s, "destroy_dumb_fb", "drmModeRmFB", s.kernel.fb)
                        EXCEPT !.kernel.fb = FALSE, !.fb_id = 0]
              ELSE s
        s2 == IF s1.fb_map # "NULL"
              THEN [Called(s1, "destroy_dumb_fb", "munmap", s1.kernel.map)
                        EXCEPT !.kernel.map = FALSE,
                               !.fb_map = "NULL", !.fb = <<"unmapped", <<>>>>]
              ELSE s1
        s3 == IF s2.dumb_handle # 0
              THEN [Called(s2, "destroy_dumb_fb", "DRM_IOCTL_MODE_DESTROY_DUMB",
                           s2.kernel.bo)
                        EXCEPT !.kernel.bo = FALSE, !.dumb_handle = 0]
              ELSE s2
    IN s3

(* close(drm_fd): the kernel drops the master held through the file, and   *)
(* with the file its buffer handles and its framebuffers; a mapping stays  *)
(* until it is unmapped.                                                   *)
close_drm(s, fn) ==
    [Called(s, fn, "close", TRUE)
         EXCEPT !.master = IF @ = "self" THEN "none" ELSE @,
                !.kernel.bo = FALSE, !.kernel.fb = FALSE]

(* initialize: e carries the outcomes of mkfifo, open, drmSetMaster,       *)
(* create_dumb_fb, the default image load, drmModeSetCrtc and              *)
(* drmDropMaster.  Returns 0, or 1 on a fatal error.                       *)
initialize(s, e) ==
    IF ~e.mkfifo THEN [st |-> s, ret |-> 1]
    ELSE IF ~e.open THEN [st |-> s, ret |-> 1]
    ELSE
    LET a == drmSetMaster(s, "initialize", e.set)
        s1 == [a.st EXCEPT !.g_is_master = a.ret]
        o == find_connector_mode(s1)
        s1a == Called(o.st, "initialize", "find_connector_mode", o.ret = 0)
    IN IF o.ret # 0 THEN [st |-> close_drm(s1a, "initialize"), ret |-> 1]
       ELSE
       LET f == create_dumb_fb(s1a, e.failed)
       IN IF f.ret # 0 THEN [st |-> close_drm(f.st, "initialize"), ret |-> 1]
          ELSE
          LET s2 == [Called(f.st, "initialize", "memset", TRUE) EXCEPT !.fb = Black]
              s3 == show_default_marquee(s2, e.defload)
              c == drmModeSetCrtc(s3, "initialize", e.crtc)
              s4 == IF c.st.g_is_master
                    THEN LET d == drmDropMaster(c.st, "initialize", e.drop)
                         IN IF ~d.ret THEN d.st
                            ELSE [d.st EXCEPT !.g_is_master = FALSE]
                    ELSE c.st
          IN [st |-> s4, ret |-> 0]

----------------------------------------------------------------------------
(* main: src/dmarquees.c *)

(* The n <= 0 branch as it would be without the timeout of the holdoff:    *)
(* C34 depends on the holdoff ending when the master is never seen held.   *)
main_poll_no_timeout(s, e) ==
    IF s.g_needs_crtc_reset /\ s.g_frontend_mode = eRA
    THEN LET s1 == IF s.g_in_ra_init_hold
                   THEN LET p == is_drm_master_held_by_other(s, e)
                            master_held == p.ret
                            s0 == IF p.st.prev_master_held /\ ~master_held
                                  THEN [p.st EXCEPT !.g_in_ra_init_hold = FALSE]
                                  ELSE p.st
                        IN [s0 EXCEPT !.prev_master_held = master_held]
                   ELSE s
         IN IF ~s1.g_in_ra_init_hold
            THEN try_reset_crtc(s1, e).st
            ELSE s1
    ELSE s

(* The n <= 0 branch as it would be without the test of                    *)
(* g_needs_crtc_reset and of the mode: C33 depends on that test.           *)
main_poll_unconditional(s, e) ==
    LET t == s.now
        s1 == IF s.g_in_ra_init_hold
              THEN LET p == is_drm_master_held_by_other(s, e)
                       master_held == p.ret
                       s0 == IF p.st.prev_master_held /\ ~master_held
                             THEN [p.st EXCEPT !.g_in_ra_init_hold = FALSE]
                             ELSE IF t - p.st.g_ra_init_hold_start >= RA_INIT_HOLD_SEC
                             THEN [p.st EXCEPT !.g_in_ra_init_hold = FALSE]
                             ELSE p.st
                   IN [s0 EXCEPT !.prev_master_held = master_held]
              ELSE s
    IN IF ~s1.g_in_ra_init_hold
       THEN try_reset_crtc(s1, e).st
       ELSE s1

(* The n <= 0 branch as it would be without the test of g_in_ra_init_hold  *)
(* before try_reset_crtc: C3 depends on that test.                         *)
main_poll_ignoring_hold(s, e) ==
    IF s.g_needs_crtc_reset /\ s.g_frontend_mode = eRA
    THEN LET t == s.now
             s1 == IF s.g_in_ra_init_hold
                   THEN LET p == is_drm_master_held_by_other(s, e)
                            master_held == p.ret
                            s0 == IF p.st.prev_master_held /\ ~master_held
                                  THEN [p.st EXCEPT !.g_in_ra_init_hold = FALSE]
                                  ELSE IF t - p.st.g_ra_init_hold_start >= RA_INIT_HOLD_SEC
                                  THEN [p.st EXCEPT !.g_in_ra_init_hold = FALSE]
                                  ELSE p.st
                        IN [s0 EXCEPT !.prev_master_held = master_held]
                   ELSE s
         IN try_reset_crtc(s1, e).st
    ELSE s

(* The n <= 0 branch as it would be if a failed retry started a new        *)
(* holdoff: C5 depends on the code not doing so.                           *)
main_poll_rehold(s, e) ==
    IF s.g_needs_crtc_reset /\ s.g_frontend_mode = eRA
    THEN LET t == s.now
             s1 == IF s.g_in_ra_init_hold
                   THEN LET p == is_drm_master_held_by_other(s, e)
                            master_held == p.ret
                            s0 == IF p.st.prev_master_held /\ ~master_held
                                  THEN [p.st EXCEPT !.g_in_ra_init_hold = FALSE]
                                  ELSE IF t - p.st.g_ra_init_hold_start >= RA_INIT_HOLD_SEC
                                  THEN [p.st EXCEPT !.g_in_ra_init_hold = FALSE]
                                  ELSE p.st
                        IN [s0 EXCEPT !.prev_master_held = master_held]
                   ELSE s
         IN IF ~s1.g_in_ra_init_hold
            THEN LET r == try_reset_crtc(s1, e)
                 IN IF r.ret
                    THEN r.st
                    ELSE [r.st EXCEPT !.g_in_ra_init_hold = TRUE,
                                      !.g_ra_init_hold_start = t]
            ELSE s1
    ELSE s

(* The n <= 0 branch as it would be if the poll that ends the holdoff left *)
(* the retry to the next poll: C28 depends on the retry in the same poll.  *)
main_poll_retry_next_poll(s, e) ==
    IF s.g_needs_crtc_reset /\ s.g_frontend_mode = eRA
    THEN LET t == s.now
         IN IF s.g_in_ra_init_hold
            THEN LET p == is_drm_master_held_by_other(s, e)
                     master_held == p.ret
                     s0 == IF p.st.prev_master_held /\ ~master_held
                           THEN [p.st EXCEPT !.g_in_ra_init_hold = FALSE]
                           ELSE IF t - p.st.g_ra_init_hold_start >= RA_INIT_HOLD_SEC
                           THEN [p.st EXCEPT !.g_in_ra_init_hold = FALSE]
                           ELSE p.st
                 IN [s0 EXCEPT !.prev_master_held = master_held]
            ELSE try_reset_crtc(s, e).st
    ELSE s

(* The n <= 0 branch of the loop: the hold check, the probe and the retry. *)
main_poll(s, e) ==
    IF s.g_needs_crtc_reset /\ s.g_frontend_mode = eRA
    THEN LET t == s.now
             s1 == IF s.g_in_ra_init_hold
                   THEN LET p == is_drm_master_held_by_other(s, e)
                            master_held == p.ret
                            s0 == IF p.st.prev_master_held /\ ~master_held
                                  THEN [p.st EXCEPT !.g_in_ra_init_hold = FALSE]
                                  ELSE IF t - p.st.g_ra_init_hold_start >= RA_INIT_HOLD_SEC
                                  THEN [p.st EXCEPT !.g_in_ra_init_hold = FALSE]
                                  ELSE p.st
                        IN [s0 EXCEPT !.prev_master_held = master_held]
                   ELSE s
         IN IF ~s1.g_in_ra_init_hold
            THEN try_reset_crtc(s1, e).st
            ELSE s1
    ELSE s

(* The ROM shortname part as it would be without the memset before the     *)
(* blit: C6 depends on the clear.                                          *)
main_rom_no_clear(s, cmd, x) ==
    LET g == Called(s, "main", "game_has_multiple_screens", x.excluded)
        st == Called(g, "main", "stat", x.img # "missing")
        l == Called(st, "main", "load_png_rgba", x.img = "ok")
    IN IF x.excluded
       THEN g
       ELSE IF x.img = "missing"
       THEN show_default_marquee(st, x.defload)
       ELSE IF x.img = "corrupt"
       THEN show_default_marquee(l, x.defload)
       ELSE LET s1 == IF l.fb_map # "NULL"
                      THEN [Called(l, "main", "scale_and_blit_to_xrgb", TRUE)
                                EXCEPT !.fb = Image(IMAGE_DIR, cmd)]
                      ELSE l
            IN handle_fb_update_for_ra_mode(s1, cmd)

(* The ROM shortname part as it would be with a bare continue when the    *)
(* image is missing or does not load: C14 depends on the fallback.         *)
main_rom_no_fallback(s, cmd, x) ==
    LET g == Called(s, "main", "game_has_multiple_screens", x.excluded)
        st == Called(g, "main", "stat", x.img # "missing")
        l == Called(st, "main", "load_png_rgba", x.img = "ok")
    IN IF x.excluded
       THEN g
       ELSE IF x.img = "missing"
       THEN st
       ELSE IF x.img = "corrupt"
       THEN l
       ELSE LET s1 == IF l.fb_map # "NULL"
                      THEN [Called(Called(l, "main", "memset", TRUE),
                                   "main", "scale_and_blit_to_xrgb", TRUE)
                                EXCEPT !.fb = Image(IMAGE_DIR, cmd)]
                      ELSE l
            IN handle_fb_update_for_ra_mode(s1, cmd)

(* The ROM shortname part as it would be without the continue for a       *)
(* multi-screen game: C15 depends on it.                                   *)
main_rom_exclusion_ignored(s, cmd, x) ==
    LET g == Called(s, "main", "game_has_multiple_screens", x.excluded)
        st == Called(g, "main", "stat", x.img # "missing")
        l == Called(st, "main", "load_png_rgba", x.img = "ok")
    IN IF x.img = "missing"
       THEN show_default_marquee(st, x.defload)
       ELSE IF x.img = "corrupt"
       THEN show_default_marquee(l, x.defload)
       ELSE LET s1 == IF l.fb_map # "NULL"
                      THEN [Called(Called(l, "main", "memset", TRUE),
                                   "main", "scale_and_blit_to_xrgb", TRUE)
                                EXCEPT !.fb = Image(IMAGE_DIR, cmd)]
                      ELSE l
            IN handle_fb_update_for_ra_mode(s1, cmd)

(* The ROM shortname part of the loop body, reached by CMD_ROM, by the     *)
(* default case and by the break of CMD_EXIT.  x.excluded is the answer of *)
(* game_has_multiple_screens, x.img the state of IMAGE_DIR/cmd.png         *)
(* (missing, corrupt, ok), x.defload whether the default image loads.      *)
main_rom(s, cmd, x) ==
    LET g == Called(s, "main", "game_has_multiple_screens", x.excluded)
        st == Called(g, "main", "stat", x.img # "missing")
        l == Called(st, "main", "load_png_rgba", x.img = "ok")
    IN IF x.excluded
       THEN g
       ELSE IF x.img = "missing"
       THEN show_default_marquee(st, x.defload)
       ELSE IF x.img = "corrupt"
       THEN show_default_marquee(l, x.defload)
       ELSE LET s1 == IF l.fb_map # "NULL"
                      THEN [Called(Called(l, "main", "memset", TRUE),
                                   "main", "scale_and_blit_to_xrgb", TRUE)
                                EXCEPT !.fb = Image(IMAGE_DIR, cmd)]
                      ELSE l
            IN handle_fb_update_for_ra_mode(s1, cmd)

(* The switch as it would be if the mode commands drew the default       *)
(* marquee before assigning g_frontend_mode: C11 depends on the order.     *)
main_dispatch_draw_then_set(s, cmd, command, x) ==
    IF command = CMD_RA
    THEN [show_default_marquee(s, x.defload) EXCEPT !.g_frontend_mode = eRA]
    ELSE IF command = CMD_SA
    THEN [show_default_marquee(s, x.defload) EXCEPT !.g_frontend_mode = eSA]
    ELSE IF command = CMD_NA
    THEN [show_default_marquee(s, x.defload) EXCEPT !.g_frontend_mode = eNA]
    ELSE IF command = CMD_EXIT
    THEN main_rom([s EXCEPT !.running = FALSE], cmd, x)
    ELSE IF command = CMD_CLEAR
    THEN show_default_marquee(s, x.defload)
    ELSE main_rom(s, cmd, x)

(* The switch on the command type. *)
main_dispatch(s, cmd, command, x) ==
    IF command = CMD_RA
    THEN show_default_marquee([s EXCEPT !.g_frontend_mode = eRA], x.defload)
    ELSE IF command = CMD_SA
    THEN show_default_marquee([s EXCEPT !.g_frontend_mode = eSA], x.defload)
    ELSE IF command = CMD_NA
    THEN show_default_marquee([s EXCEPT !.g_frontend_mode = eNA], x.defload)
    ELSE IF command = CMD_EXIT
    THEN main_rom([s EXCEPT !.running = FALSE], cmd, x)
    ELSE IF command = CMD_CLEAR
    THEN show_default_marquee(s, x.defload)
    ELSE main_rom(s, cmd, x)

(* The n > 0 branch as it would be without the test of the trimmed        *)
(* string: C13 depends on the continue at line 531.                        *)
main_command_no_empty_test(s, buf, x) ==
    LET cmd == trim(buf)
        command == toCommandType(cmd)
        s1 == [s EXCEPT !.g_needs_crtc_reset = FALSE,
                        !.g_current_image_path = <<>>,
                        !.g_in_ra_init_hold = FALSE,
                        !.step = [kind |-> "cmd", buf |-> buf, cmd |-> cmd,
                                  ctype |-> command,
                                  held |-> s.g_in_ra_init_hold,
                                  mode |-> s.g_frontend_mode, logs |-> <<>>]]
    IN main_dispatch(s1, cmd, command, x)

(* The n > 0 branch of the loop: trim, clear the retry state, dispatch.    *)
main_command(s, buf, x) ==
    LET cmd == trim(buf)
    IN IF cmd = <<>>
       THEN [s EXCEPT !.step.buf = buf]
       ELSE LET command == toCommandType(cmd)
                s1 == [s EXCEPT !.g_needs_crtc_reset = FALSE,
                                !.g_current_image_path = <<>>,
                                !.g_in_ra_init_hold = FALSE,
                                !.step = [kind |-> "cmd", buf |-> buf, cmd |-> cmd,
                                          ctype |-> command,
                                          held |-> s.g_in_ra_init_hold,
                                          mode |-> s.g_frontend_mode,
                                          logs |-> <<>>]]
            IN main_dispatch(s1, cmd, command, x)

(* The cleanup block after the loop. *)
main_cleanup(s) ==
    LET s1 == destroy_dumb_fb(s)
        s2 == IF s1.g_is_master
              THEN drmDropMaster(s1, "main", TRUE).st
              ELSE s1
    IN close_drm(s2, "main")

----------------------------------------------------------------------------
(* Inputs *)

LF == "\n"

(* What one read of the FIFO can deliver *)
Buffers ==
    { tEXIT \o <<LF>>, tCLEAR \o <<LF>>, tRESET \o <<LF>>,
      tRA \o <<LF>>, tSA \o <<LF>>, tNA \o <<LF>>,
      <<"e","x","i","t",LF>>, <<"r","a",LF>>,
      <<"s","f",LF>>, <<" ","x","y","z",LF>>,
      <<" ",LF>>, <<LF>>, <<" ","\t","\r",LF>> }

(* The names that may have a file in IMAGE_DIR *)
ImageFiles == { <<"s","f">>, <<"x","y","z">> }

(* The outcomes of the calls of one poll; the outcome of a call that is    *)
(* not reached (after a failed drmSetMaster) is left at TRUE.              *)
PollOutcomes ==
    { e \in [pset : BOOLEAN, pdrop : BOOLEAN,
             set : BOOLEAN, crtc : BOOLEAN, drop : BOOLEAN] :
        /\ (~e.pset => e.pdrop)
        /\ (~e.set => e.crtc /\ e.drop) }

(* The outcomes of the lookups of one command; a lookup that is not        *)
(* reached (after an exclusion, or the default image after a ROM image     *)
(* that loads) is left at its successful outcome.                          *)
CommandOutcomes ==
    { x \in [excluded : BOOLEAN, img : {"missing", "corrupt", "ok"},
             defload : BOOLEAN] :
        /\ (x.excluded => x.img = "ok")
        /\ (x.img = "ok" => x.defload) }

(* Modes a connector may advertise: two of the preferred size, two others *)
Mode(w, h, r) == [hdisplay |-> w, vdisplay |-> h, vrefresh |-> r]
ModeLists ==
    { <<>>,
      <<Mode(1920, 1080, 60)>>,
      <<Mode(1280, 720, 60)>>,
      <<Mode(1280, 720, 60), Mode(1920, 1080, 60)>>,
      <<Mode(1920, 1080, 50), Mode(1920, 1080, 60)>>,
      <<Mode(1280, 720, 60), Mode(1920, 1080, 50), Mode(1920, 1080, 60)>>,
      <<Mode(1024, 768, 60), Mode(1280, 720, 60)>> }

(* A connector's encoder_id and what drmModeGetEncoder answers for it: no  *)
(* encoder, a failed lookup, an encoder without crtc, an encoder on crtc 5 *)
Encoder(crtc) == [null |-> FALSE, crtc_id |-> crtc]
NullEncoder == [null |-> TRUE, crtc_id |-> 0]
Encoders ==
    { [encoder_id |-> 0, encoder |-> NullEncoder],
      [encoder_id |-> 3, encoder |-> NullEncoder],
      [encoder_id |-> 3, encoder |-> Encoder(0)],
      [encoder_id |-> 3, encoder |-> Encoder(5)] }

Connector(c, modes, e) ==
    [null |-> FALSE, connection |-> c, modes |-> modes,
     encoder_id |-> e.encoder_id, encoder |-> e.encoder]
NullConnector ==
    [null |-> TRUE, connection |-> DRM_MODE_DISCONNECTED, modes |-> <<>>,
     encoder_id |-> 0, encoder |-> NullEncoder]

(* What drmModeGetConnector may answer: a failed lookup, a disconnected    *)
(* connector (with or without modes), a connected one                      *)
Connectors ==
    {NullConnector}
    \cup { Connector(DRM_MODE_DISCONNECTED, modes,
                     [encoder_id |-> 3, encoder |-> Encoder(5)]) :
               modes \in { <<>>, <<Mode(1920, 1080, 60)>> } }
    \cup { Connector(DRM_MODE_CONNECTED, modes, e) :
               modes \in ModeLists, e \in Encoders }

CrtcLists == { <<>>, <<7, 8>> }

(* Bound of the model: the number of connectors of the device *)
MaxConnectors == 2

(* What the kernel may answer to find_connector_mode *)
NullResources == [null |-> TRUE, connectors |-> <<>>, crtcs |-> <<>>]
Resources ==
    {NullResources}
    \cup { [null |-> FALSE, connectors |-> cs, crtcs |-> k] :
               cs \in UNION { [1..n -> Connectors] : n \in 0..MaxConnectors },
               k \in CrtcLists }

(* The devices main is started on: one display connected that has the      *)
(* preferred mode, and no display connected                                *)
StartupResources ==
    { [null |-> FALSE,
       connectors |-> << Connector(DRM_MODE_CONNECTED, <<Mode(1920, 1080, 60)>>,
                                   [encoder_id |-> 3, encoder |-> Encoder(5)]) >>,
       crtcs |-> <<7, 8>>],
      [null |-> FALSE,
       connectors |-> << Connector(DRM_MODE_DISCONNECTED, <<>>,
                                   [encoder_id |-> 3, encoder |-> Encoder(5)]) >>,
       crtcs |-> <<7, 8>>] }

InitOutcomes == [mkfifo : BOOLEAN, open : BOOLEAN, set : BOOLEAN,
                 failed : {"none", "CREATE_DUMB", "MAP_DUMB", "mmap", "drmModeAddFB"},
                 defload : BOOLEAN, crtc : BOOLEAN, drop : BOOLEAN]

----------------------------------------------------------------------------
(* The state machine *)

(* The statics as initialised, the frontend mode as parseFrontendModeArg   *)
(* left it, and the peer possibly already master.                          *)
InitStatics ==
    /\ pc = "start"
    /\ running = TRUE
    /\ dumb_handle = 0
    /\ fb_id = 0
    /\ fb_map = "NULL"
    /\ g_is_master = FALSE
    /\ g_frontend_mode \in {eNA, eSA, eRA}
    /\ g_needs_crtc_reset = FALSE
    /\ g_last_crtc_error_log = 0
    /\ g_current_image_path = <<>>
    /\ g_ra_init_hold_start = 0
    /\ g_in_ra_init_hold = FALSE
    /\ prev_master_held = FALSE
    /\ held_seen = FALSE
    /\ conn_id = 0
    /\ crtc_id = 0
    /\ chosen_mode = NoMode
    /\ fb = <<"unmapped", <<>>>>
    /\ now = 1
    /\ master \in {"none", "peer"}
    /\ kernel = NoSurface
    /\ blit = NoBlit
    /\ calls = <<>>
    /\ step = NoStep("idle")

Init ==
    /\ InitStatics
    /\ res \in StartupResources

(* main up to the loop: initialize() and the return 1 on its failure *)
Initialize ==
    /\ Idle
    /\ pc = "start"
    /\ \E e \in InitOutcomes :
         LET r == initialize(Begin(S, "init"), e)
         IN Install([r.st EXCEPT !.pc = IF r.ret = 0 THEN "loop" ELSE "failed"])

(* The loop condition found true: main goes into open(CMD_FIFO, O_RDONLY), *)
(* which blocks until a process opens the FIFO for writing.                *)
LoopEnter ==
    /\ Idle
    /\ pc = "loop"
    /\ running
    /\ Install([S EXCEPT !.pc = "open"])

(* The open of the FIFO fails (also with EINTR, when a signal handler not  *)
(* installed with SA_RESTART has run): break                               *)
FifoOpenFail ==
    /\ Idle
    /\ pc = "open"
    /\ Install([Begin(S, "openfail") EXCEPT !.pc = "cleanup"])

(* A writer has opened the FIFO and closed it without writing, or the read *)
(* fails: the open returns, read returns n <= 0, and the iteration ends    *)
(* with continue.                                                          *)
Poll ==
    /\ Idle
    /\ pc = "open"
    /\ \E e \in PollOutcomes :
         Install([main_poll(Begin(S, "poll"), e) EXCEPT !.pc = "loop"])

(* A writer has opened the FIFO and written: the open returns, read        *)
(* returns the bytes, and the iteration runs to its end.                   *)
Command ==
    /\ Idle
    /\ pc = "open"
    /\ \E buf \in Buffers, x \in CommandOutcomes :
         /\ (x.img = "ok" /\ ~x.excluded) => trim(buf) \in ImageFiles
         /\ Install([main_command(Begin(S, "read"), buf, x) EXCEPT !.pc = "loop"])

(* The loop condition found false *)
LoopExit ==
    /\ Idle
    /\ pc = "loop"
    /\ ~running
    /\ Install([Begin(S, "loopexit") EXCEPT !.pc = "cleanup"])

(* The cleanup block and return 0 *)
Cleanup ==
    /\ Idle
    /\ pc = "cleanup"
    /\ Install([main_cleanup(Begin(S, "cleanup")) EXCEPT !.pc = "done"])

(* sigint_handler, installed by signal(), which under _GNU_SOURCE gives    *)
(* SA_RESTART: an open of the FIFO it interrupts is resumed.               *)
Sigint ==
    /\ Idle
    /\ pc \in {"start", "loop", "open"}
    /\ running
    /\ Install([S EXCEPT !.running = FALSE])

(* A second of time passes *)
Tick ==
    /\ Idle
    /\ pc = "open"
    /\ now < MaxTime
    /\ Install([S EXCEPT !.now = @ + 1])

(* The peer process takes DRM master when nobody holds it *)
PeerAcquire ==
    /\ Idle
    /\ pc = "open"
    /\ master = "none"
    /\ Install([S EXCEPT !.master = "peer"])

(* The peer process drops DRM master *)
PeerRelease ==
    /\ Idle
    /\ pc = "open"
    /\ master = "peer"
    /\ Install([S EXCEPT !.master = "none"])

(* The step of main is over: its record is dropped, the program state is   *)
(* as the step left it, and the next step (of main, of the peer, of the    *)
(* clock) can be taken.                                                    *)
EndStep ==
    /\ ~Idle
    /\ Install([S EXCEPT !.calls = <<>>, !.step = NoStep("idle")])

Next ==
    \/ Initialize
    \/ LoopEnter
    \/ FifoOpenFail
    \/ Poll
    \/ Command
    \/ LoopExit
    \/ Cleanup
    \/ Sigint
    \/ Tick
    \/ PeerAcquire
    \/ PeerRelease
    \/ EndStep

Spec == Init /\ [][Next]_vars

TypeOK ==
    /\ pc \in {"start", "loop", "open", "cleanup", "done", "failed"}
    /\ running \in BOOLEAN
    /\ g_is_master \in BOOLEAN
    /\ g_frontend_mode \in {eNA, eSA, eRA}
    /\ master \in {"none", "self", "peer"}
    /\ kernel \in [bo : BOOLEAN, map : BOOLEAN, fb : BOOLEAN]
    /\ dumb_handle \in {0, 1}
    /\ fb_id \in {0, 1}
    /\ fb_map \in {"NULL", "mapped"}
    /\ conn_id \in 0..MaxConnectors
    /\ crtc_id \in {0, 5, 7}
    /\ res \in Resources
    /\ now \in 1..MaxTime
    /\ g_ra_init_hold_start \in 0..MaxTime
    /\ g_last_crtc_error_log \in 0..MaxTime
    /\ prev_master_held \in BOOLEAN
    /\ held_seen \in BOOLEAN

----------------------------------------------------------------------------
(* What the last step did, read off its calls *)

TryCalls == SelectSeq(calls, LAMBDA c : c.fn = "try_reset_crtc")
ProbeCalls == SelectSeq(calls, LAMBDA c : c.fn = "is_drm_master_held_by_other")
DrmCalls == SelectSeq(calls, LAMBDA c :
                c.call \in {"drmSetMaster", "drmModeSetCrtc", "drmDropMaster"})
HasCall(name) == \E i \in DOMAIN calls : calls[i].call = name
Made(fn, call, ret) ==
    \E i \in DOMAIN calls : calls[i] = [fn |-> fn, call |-> call, ret |-> ret]
Armed == HasCall("hold")
ImageDrawn == HasCall("scale_and_blit_to_xrgb")
Attempted == TryCalls # <<>>
AttemptFailed ==
    /\ Attempted
    /\ ~Made("try_reset_crtc", "drmModeSetCrtc", TRUE)
(* The probe found the master free / held *)
ProbeFree == Made("is_drm_master_held_by_other", "drmSetMaster", TRUE)
ProbeHeld == Made("is_drm_master_held_by_other", "drmSetMaster", FALSE)
(* The loop body took a non-excluded key whose image loaded *)
RomShown == step.kind = "cmd" /\ Made("main", "load_png_rgba", TRUE)
(* The hold has timed out at the current clock *)
HoldTimedOut == now - g_ra_init_hold_start >= RA_INIT_HOLD_SEC

----------------------------------------------------------------------------
(* C1 as stated: after every poll that made an arbitration attempt or a    *)
(* probe, the daemon does not hold DRM master, whatever the outcomes of    *)
(* the acquire, commit and release calls.                                  *)
C1_NeverHeldAfterAttempt ==
    (step.kind = "poll" /\ DrmCalls # <<>>) => master # "self"

(* C1 amended: after every poll that made an arbitration attempt or a      *)
(* probe, the daemon holds DRM master only if the last call of the poll    *)
(* was a drmDropMaster that failed; a failed drmSetMaster and a failed     *)
(* drmModeSetCrtc never leave it held.                                     *)
C1_HeldOnlyAfterFailedRelease ==
    (step.kind = "poll" /\ DrmCalls # <<>>) =>
        LET last == DrmCalls[Len(DrmCalls)]
        IN /\ master = "self" => (last.call = "drmDropMaster" /\ ~last.ret)
           /\ Made("try_reset_crtc", "drmSetMaster", FALSE) => master # "self"
           /\ (Made("try_reset_crtc", "drmModeSetCrtc", FALSE)
                 /\ Made("try_reset_crtc", "drmDropMaster", TRUE)) => master # "self"

(* C1 witness: an attempt whose commit failed and whose release worked *)
C1_Witness ==
    /\ step.kind = "poll"
    /\ Made("try_reset_crtc", "drmModeSetCrtc", FALSE)
    /\ Made("try_reset_crtc", "drmDropMaster", TRUE)
    /\ master = "none"

(* C2: in try_reset_crtc a successful drmSetMaster is followed by the      *)
(* drmModeSetCrtc and then by exactly one drmDropMaster, whether the       *)
(* commit succeeded or failed.                                             *)
C2_AcquireThenOneRelease ==
    (Attempted /\ TryCalls[1].ret) =>
        /\ Len(TryCalls) = 3
        /\ TryCalls[1].call = "drmSetMaster"
        /\ TryCalls[2].call = "drmModeSetCrtc"
        /\ TryCalls[3].call = "drmDropMaster"

(* C2 witness: an attempt that acquired, failed to commit, and released *)
C2_Witness ==
    /\ Len(TryCalls) = 3
    /\ TryCalls[1].ret
    /\ ~TryCalls[2].ret
    /\ TryCalls[3].call = "drmDropMaster"

(* C3 as stated: from a state in holdoff, a step makes no drmSetMaster     *)
(* call unless the hold has timed out or the probe of this step sees the   *)
(* master free after the previous probe saw it held.                       *)
C3_NoAcquireInHoldoff ==
    [][(g_in_ra_init_hold /\ ~HoldTimedOut /\ ~(prev_master_held /\ ProbeFree'))
          => ~HasCall("drmSetMaster")']_vars

(* C3 amended: from a state in holdoff, a step makes no arbitration        *)
(* attempt (try_reset_crtc) unless it is a poll at which the hold has      *)
(* timed out or the probe sees the master free after the previous probe    *)
(* saw it held; the only DRM calls of a poll that stays in holdoff are     *)
(* those of the probe.                                                     *)
C3_NoAttemptInHoldoff ==
    [][g_in_ra_init_hold =>
          /\ Attempted' =>
                /\ step'.kind = "poll"
                /\ HoldTimedOut \/ (prev_master_held /\ ProbeFree')
          /\ g_in_ra_init_hold' => (DrmCalls = ProbeCalls)']_vars

(* C3 witness: a poll in holdoff that probed, found the master held, and   *)
(* stayed in holdoff                                                       *)
C3_Witness ==
    /\ step.kind = "poll"
    /\ g_in_ra_init_hold
    /\ ProbeHeld
    /\ ~Attempted

(* C4 as stated: the holdoff is armed only in RA mode and only after a     *)
(* commit attempt of the same step has failed.                             *)
C4_HoldoffAfterFailedCommit ==
    \A i \in DOMAIN calls :
        calls[i].call = "hold" =>
            /\ g_frontend_mode = eRA
            /\ \E j \in 1..(i - 1) :
                   calls[j].call = "drmModeSetCrtc" /\ ~calls[j].ret

(* C4 amended: the holdoff is entered only by a step that drew an image    *)
(* while the mode is RA and g_is_master is false; it is armed right after  *)
(* the blit, with no commit attempt before it in the step.                 *)
C4_HoldoffOnUpdate ==
    [][((g_in_ra_init_hold' /\ ~g_in_ra_init_hold) \/ Armed') =>
          /\ g_frontend_mode' = eRA
          /\ ~g_is_master'
          /\ \E i \in DOMAIN calls' :
                /\ calls'[i].call = "hold"
                /\ i > 1
                /\ calls'[i - 1].call = "scale_and_blit_to_xrgb"
                /\ \A j \in 1..(i - 1) : calls'[j].call # "drmModeSetCrtc"]_vars

(* C4 witness: a command armed the holdoff and the step made no DRM call *)
C4_Witness ==
    /\ step.kind = "cmd"
    /\ Armed
    /\ g_in_ra_init_hold
    /\ DrmCalls = <<>>

(* C5 as stated: an arbitration attempt is made only by the poll that      *)
(* ends a holdoff; after a failed retry no further attempt is made before  *)
(* the holdoff has been entered again.                                     *)
C5_RetryOnlyFromHoldoff ==
    [][Attempted' => g_in_ra_init_hold]_vars

(* C5 amended: a poll makes at most one arbitration attempt; the poll that *)
(* ends a holdoff makes one; a failed attempt leaves the deferred flag set *)
(* and does not re-enter the holdoff, and every later poll (RA mode, flag  *)
(* set, no holdoff) makes one attempt again.                               *)
C5_RetryEveryPoll ==
    [][step'.kind = "poll" =>
          LET tries == Len(SelectSeq(TryCalls', LAMBDA c : c.call = "drmSetMaster"))
          IN /\ tries <= 1
             /\ (g_in_ra_init_hold /\ ~g_in_ra_init_hold') => tries = 1
             /\ AttemptFailed' => (g_needs_crtc_reset' /\ ~g_in_ra_init_hold')
             /\ (g_needs_crtc_reset /\ g_frontend_mode = eRA /\ ~g_in_ra_init_hold)
                   => (tries = 1 /\ ProbeCalls' = <<>>)]_vars

(* C5 witness: a failed attempt by a poll outside holdoff (no probe) *)
C5_Witness ==
    /\ step.kind = "poll"
    /\ AttemptFailed
    /\ ProbeCalls = <<>>
    /\ g_needs_crtc_reset
    /\ ~g_in_ra_init_hold

(* C6 as stated: a step that shows the image of a non-excluded key makes   *)
(* an arbitration attempt after the blit.                                  *)
C6_UpdateThenArbitration ==
    RomShown =>
        \E i, j \in DOMAIN calls :
            /\ i < j
            /\ calls[i].call = "scale_and_blit_to_xrgb"
            /\ calls[j].call = "drmSetMaster"

(* C6 amended: in every mode, a step that shows the image of a             *)
(* non-excluded key clears the bottom half and then blits the image, and   *)
(* makes no DRM call; it arms a deferred attempt exactly when the mode is  *)
(* RA and g_is_master is false.                                            *)
C6_UpdateWithoutArbitration ==
    RomShown =>
        /\ Len(calls) >= 5
        /\ calls[4] = [fn |-> "main", call |-> "memset", ret |-> TRUE]
        /\ calls[5] = [fn |-> "main", call |-> "scale_and_blit_to_xrgb", ret |-> TRUE]
        /\ fb = Image(IMAGE_DIR, step.cmd)
        /\ DrmCalls = <<>>
        /\ Armed <=> (g_frontend_mode = eRA /\ ~g_is_master)
        /\ Armed => g_needs_crtc_reset

(* C6 witness: a ROM image shown in SA mode *)
C6_Witness ==
    /\ RomShown
    /\ g_frontend_mode = eSA
    /\ fb = Image(IMAGE_DIR, <<"s","f">>)

(* C7 as stated: a command that drew an image arms the holdoff (flag,      *)
(* start time, deferred flag) exactly when the mode is RA.                 *)
C7_ArmedIffRA ==
    (step.kind = "cmd" /\ ImageDrawn) =>
        /\ Armed <=> g_frontend_mode = eRA
        /\ Armed => /\ g_in_ra_init_hold
                    /\ g_ra_init_hold_start = now
                    /\ g_needs_crtc_reset

(* C7 amended: a command that drew an image arms the holdoff (flag, start  *)
(* time, deferred flag) exactly when the mode is RA and g_is_master is     *)
(* false; never in SA or NA mode, and not while g_is_master is set.        *)
C7_ArmedIffRAAndNotMaster ==
    (step.kind = "cmd" /\ ImageDrawn) =>
        /\ Armed <=> (g_frontend_mode = eRA /\ ~g_is_master)
        /\ Armed => /\ g_in_ra_init_hold
                    /\ g_ra_init_hold_start = now
                    /\ g_needs_crtc_reset
        /\ ~Armed => (~g_in_ra_init_hold /\ ~g_needs_crtc_reset)

(* C7 witness: an image drawn in RA mode after the clock has advanced,     *)
(* holdoff armed at the time of the update                                 *)
C7_Witness ==
    /\ step.kind = "cmd"
    /\ ImageDrawn
    /\ Armed
    /\ g_frontend_mode = eRA
    /\ g_ra_init_hold_start = now
    /\ now > 2

C9_ResetForcesRetry ==
    (step.kind = "cmd" /\ step.cmd = tRESET) =>
        /\ HasCall("drmSetMaster")
        /\ ~HasCall("game_has_multiple_screens")
        /\ ~HasCall("memset")

(* toupper on the letters, and a string in upper case *)
Lower == <<"a","b","c","d","e","f","g","h","i","j","k","l","m",
           "n","o","p","q","r","s","t","u","v","w","x","y","z">>
Upper == <<"A","B","C","D","E","F","G","H","I","J","K","L","M",
           "N","O","P","Q","R","S","T","U","V","W","X","Y","Z">>
ToUpper(c) ==
    IF \E i \in DOMAIN Lower : Lower[i] = c
    THEN Upper[CHOOSE i \in DOMAIN Lower : Lower[i] = c]
    ELSE c
UpperCase(s) == [i \in DOMAIN s |-> ToUpper(s[i])]
ControlTokens == {tEXIT, tCLEAR, tRESET, tRA, tSA, tNA}

(* C10 as stated: a token that is a control token in some letter case is   *)
(* dispatched as the upper-case token is, and is not taken as a ROM        *)
(* shortname.                                                              *)
C10_CaseInsensitive ==
    (step.kind = "cmd" /\ UpperCase(step.cmd) \in ControlTokens) =>
        /\ step.ctype = toCommandType(UpperCase(step.cmd))
        /\ step.ctype # CMD_ROM

----------------------------------------------------------------------------
(* The mode a mode command sets, and the default image of a mode as the    *)
(* header names it                                                         *)
ModeCommands == {CMD_RA, CMD_SA, CMD_NA}
ModeSetBy(command) ==
    IF command = CMD_RA THEN eRA ELSE IF command = CMD_SA THEN eSA ELSE eNA
DefaultImageOf(m) ==
    IF m = eRA THEN Image(DEF_MARQUEE_DIR, DEF_RA_MARQUEE_NAME)
    ELSE IF m = eSA THEN Image(DEF_MARQUEE_DIR, DEF_SA_MARQUEE_NAME)
    ELSE Image(DEF_MARQUEE_DIR, DEF_MARQUEE_NAME)
(* show_default_marquee loaded / failed to load the default image *)
DefaultLoaded == Made("show_default_marquee", "load_png_rgba", TRUE)
DefaultLoadFailed == Made("show_default_marquee", "load_png_rgba", FALSE)

(* C11 as stated: after the command RA, SA or NA the mode is eRA, eSA or   *)
(* eNA respectively and the bottom half holds the default image of that    *)
(* mode.                                                                   *)
C11_ModeCommandDrawsDefault ==
    (step.kind = "cmd" /\ step.ctype \in ModeCommands) =>
        /\ g_frontend_mode = ModeSetBy(step.ctype)
        /\ fb = DefaultImageOf(ModeSetBy(step.ctype))

(* C11 amended: after the command RA, SA or NA the mode is eRA, eSA or eNA *)
(* respectively; the step clears the bottom half and tries to load the     *)
(* default image of the new mode, never that of the mode it found; when    *)
(* the load succeeds the bottom half holds that image, when it fails the   *)
(* bottom half is left black.                                              *)
C11_ModeCommandDrawsNewDefaultOrBlack ==
    (step.kind = "cmd" /\ step.ctype \in ModeCommands) =>
        /\ g_frontend_mode = ModeSetBy(step.ctype)
        /\ calls[1] = [fn |-> "show_default_marquee", call |-> "memset", ret |-> TRUE]
        /\ DefaultLoaded => fb = DefaultImageOf(ModeSetBy(step.ctype))
        /\ DefaultLoadFailed => fb = Black
        /\ DefaultLoaded \/ DefaultLoadFailed

(* C11 witness: SA received in another mode, the SA default image drawn *)
C11_Witness ==
    /\ step.kind = "cmd"
    /\ step.ctype = CMD_SA
    /\ step.mode = eRA
    /\ g_frontend_mode = eSA
    /\ fb = Image(DEF_MARQUEE_DIR, DEF_SA_MARQUEE_NAME)

IsBlank(buf) == \A i \in DOMAIN buf : isspace(buf[i])

(* C13: a read that delivers only whitespace changes nothing: the bottom   *)
(* half, the mode, g_needs_crtc_reset, g_in_ra_init_hold,                  *)
(* g_ra_init_hold_start and the pending image name are as before, and the  *)
(* step makes no call.                                                     *)
C13_BlankIgnored ==
    [][(step'.kind \in {"read", "cmd"} /\ IsBlank(step'.buf)) =>
          /\ UNCHANGED <<fb, g_frontend_mode, g_needs_crtc_reset, g_in_ra_init_hold,
                         g_ra_init_hold_start, g_current_image_path, running>>
          /\ calls' = <<>>
          /\ step'.kind = "read"]_vars

(* C13 witness: a blank line read while an update is pending in holdoff *)
C13_Witness ==
    /\ step.kind = "read"
    /\ step.buf = <<" ", "\t", "\r", LF>>
    /\ g_in_ra_init_hold
    /\ g_needs_crtc_reset
    /\ fb = Image(IMAGE_DIR, <<"s","f">>)

(* The step took a ROM shortname that is not excluded and whose image is   *)
(* missing (stat fails) or does not decode (load_png_rgba fails)           *)
RomImageUnusable ==
    /\ step.kind = "cmd"
    /\ step.ctype = CMD_ROM
    /\ Made("main", "game_has_multiple_screens", FALSE)
    /\ Made("main", "stat", FALSE) \/ Made("main", "load_png_rgba", FALSE)

(* C14 as stated: after a non-excluded key whose image is missing or does  *)
(* not decode, the bottom half holds the default image of the mode.        *)
C14_FallbackShowsDefault ==
    RomImageUnusable => fb = DefaultImageOf(g_frontend_mode)

(* C14 amended: after a non-excluded key whose image is missing or does    *)
(* not decode, the mode is unchanged and the bottom half has been cleared  *)
(* by show_default_marquee; it holds the default image of the mode when    *)
(* that image loads and is black when it does not, so it never keeps the   *)
(* previous content.                                                       *)
C14_FallbackShowsDefaultOrBlack ==
    RomImageUnusable =>
        /\ g_frontend_mode = step.mode
        /\ Made("show_default_marquee", "memset", TRUE)
        /\ DefaultLoaded => fb = DefaultImageOf(step.mode)
        /\ DefaultLoadFailed => fb = Black
        /\ DefaultLoaded \/ DefaultLoadFailed
        /\ ~Made("main", "scale_and_blit_to_xrgb", TRUE)

(* C14 witness: a key without image file in NA mode, default image drawn *)
C14_Witness ==
    /\ RomImageUnusable
    /\ Made("main", "stat", FALSE)
    /\ step.cmd = <<"x","y","z">>
    /\ step.mode = eNA
    /\ fb = Image(DEF_MARQUEE_DIR, DEF_MARQUEE_NAME)

(* C14 second witness: an image that does not decode, default drawn *)
C14_WitnessCorrupt ==
    /\ RomImageUnusable
    /\ Made("main", "load_png_rgba", FALSE)
    /\ DefaultLoaded

(* The step took a key that game_has_multiple_screens excludes *)
KeyExcluded ==
    /\ step.kind = "cmd"
    /\ Made("main", "game_has_multiple_screens", TRUE)

(* C15: a key that game_has_multiple_screens excludes leaves the bottom    *)
(* half and the mode as they were; the step looks up no image and writes   *)
(* nothing into the buffer.                                                *)
C15_ExcludedNoChange ==
    [][KeyExcluded' =>
          /\ UNCHANGED <<fb, g_frontend_mode, fb_map, fb_id>>
          /\ Len(calls') = 1]_vars

(* C15 witness: an excluded key received while a ROM image is shown *)
C15_Witness ==
    /\ KeyExcluded
    /\ step.ctype = CMD_ROM
    /\ step.cmd = <<"x","y","z">>
    /\ fb = Image(IMAGE_DIR, <<"s","f">>)

----------------------------------------------------------------------------
(* The surface *)

(* A write into the mapped buffer, or a commit of the framebuffer *)
DrawOrCommit == {"memset", "scale_and_blit_to_xrgb", "drmModeSetCrtc"}
(* A call that ends the registration of the framebuffer *)
IsTeardown(c) == c.fn = "destroy_dumb_fb" \/ c.call = "close"

(* C16: from the return of initialize() to the cleanup block fb_id is set  *)
(* and names a framebuffer the kernel has registered, and fb_map a mapping *)
(* the kernel has; a set fb_id is never stale; within a step no memset,    *)
(* blit or drmModeSetCrtc follows a call of destroy_dumb_fb or the close   *)
(* of the device, and in initialize() none precedes the drmModeAddFB; once *)
(* main has returned no step follows.  This holds on the way out by EXIT,  *)
(* by SIGINT and by a failed open of the FIFO.                             *)
C16_SurfaceValidUntilTeardown ==
    /\ [](/\ pc \in {"loop", "open", "cleanup"} => (fb_id # 0 /\ fb_map # "NULL")
          /\ fb_id # 0 => kernel.fb
          /\ fb_map # "NULL" => kernel.map
          /\ \A i, j \in DOMAIN calls :
                (i < j /\ IsTeardown(calls[i])) => calls[j].call \notin DrawOrCommit
          /\ step.kind = "init" =>
                \A j \in DOMAIN calls :
                    calls[j].call \in DrawOrCommit =>
                        \E i \in 1..(j - 1) :
                            calls[i].call = "drmModeAddFB" /\ calls[i].ret)
    /\ [][(pc \in {"done", "failed"}) => (pc' = pc /\ calls' = <<>>)]_vars

(* C16 witness: the cleanup block has torn the surface down after the      *)
(* loop ended with running false                                           *)
C16_Witness ==
    /\ pc = "done"
    /\ step.kind = "cleanup"
    /\ ~running
    /\ Made("destroy_dumb_fb", "drmModeRmFB", TRUE)
    /\ Made("destroy_dumb_fb", "munmap", TRUE)
    /\ fb_id = 0
    /\ ~kernel.fb

(* C16 second witness: the cleanup block reached by the break on a failed  *)
(* open of the FIFO                                                        *)
C16_WitnessOpenFail ==
    /\ pc = "done"
    /\ step.kind = "cleanup"
    /\ running
    /\ Made("destroy_dumb_fb", "drmModeRmFB", TRUE)

----------------------------------------------------------------------------
(* The surface functions on their own: create_dumb_fb, show_default_marquee *)
(* and destroy_dumb_fb called in any order, from the state main starts in.  *)
(* create_dumb_fb is called with the handles as the statics initialise     *)
(* them, as initialize() does.                                             *)

SurfaceFailures == {"none", "CREATE_DUMB", "MAP_DUMB", "mmap", "drmModeAddFB"}

SurfaceInit == Init

SurfaceCreate ==
    /\ pc = "start"
    /\ dumb_handle = 0
    /\ fb_map = "NULL"
    /\ fb_id = 0
    /\ \E failed \in SurfaceFailures :
         Install(create_dumb_fb(Begin(S, "create"), failed).st)

SurfaceShowDefault ==
    /\ pc = "start"
    /\ \E loaded \in BOOLEAN :
         Install(show_default_marquee(Begin(S, "draw"), loaded))

SurfaceDestroy ==
    /\ pc = "start"
    /\ Install(destroy_dumb_fb(Begin(S, "destroy")))

(* A second passes between two calls *)
SurfaceTick ==
    /\ now < MaxTime
    /\ Install([Begin(S, "tick") EXCEPT !.now = @ + 1])

SurfaceNext ==
    \/ SurfaceCreate
    \/ SurfaceShowDefault
    \/ SurfaceDestroy
    \/ SurfaceTick

SurfaceSpec == SurfaceInit /\ [][SurfaceNext]_vars

(* The releases destroy_dumb_fb can make *)
Releases == {"drmModeRmFB", "munmap", "DRM_IOCTL_MODE_DESTROY_DUMB"}

(* C17: a call of destroy_dumb_fb that follows a call of destroy_dumb_fb   *)
(* makes no drmModeRmFB, no munmap and no DRM_IOCTL_MODE_DESTROY_DUMB and  *)
(* changes nothing; a call that finds some handles zero (after a failed    *)
(* create_dumb_fb, or before any) makes only the releases of the handles   *)
(* that are set, each of a resource the kernel has, and leaves every       *)
(* handle zero.                                                            *)
C17_DestroyIdempotent ==
    [][step'.kind = "destroy" =>
          /\ step.kind = "destroy" =>
                /\ calls' = <<>>
                /\ UNCHANGED <<dumb_handle, fb_id, fb_map, kernel, fb>>
          /\ \A i \in DOMAIN calls' : calls'[i].call \in Releases /\ calls'[i].ret
          /\ Made("destroy_dumb_fb", "drmModeRmFB", TRUE)' <=> fb_id # 0
          /\ Made("destroy_dumb_fb", "munmap", TRUE)' <=> fb_map # "NULL"
          /\ Made("destroy_dumb_fb", "DRM_IOCTL_MODE_DESTROY_DUMB", TRUE)'
                <=> dumb_handle # 0
          /\ dumb_handle' = 0 /\ fb_id' = 0 /\ fb_map' = "NULL"
          /\ kernel' = NoSurface]_vars

(* C17 witness: a destroy_dumb_fb that found nothing to release, after a   *)
(* surface had been created, drawn into and destroyed                      *)
C17_Witness ==
    /\ step.kind = "destroy"
    /\ calls = <<>>
    /\ g_needs_crtc_reset
    /\ kernel = NoSurface

(* C17 second witness: a destroy_dumb_fb after a create_dumb_fb that       *)
(* failed past the allocation released the buffer only                     *)
C17_WitnessPartial ==
    /\ step.kind = "destroy"
    /\ Len(calls) = 1
    /\ calls[1].call = "DRM_IOCTL_MODE_DESTROY_DUMB"

(* create_dumb_fb has returned -1 after DRM_IOCTL_MODE_CREATE_DUMB had     *)
(* succeeded                                                               *)
CreateFailedPastAllocation ==
    /\ step.kind = "create"
    /\ Made("create_dumb_fb", "DRM_IOCTL_MODE_CREATE_DUMB", TRUE)
    /\ \E i \in DOMAIN calls : ~calls[i].ret

(* C18 as stated: when create_dumb_fb returns -1 after the allocation, the *)
(* kernel holds nothing of the surface any more: the dumb buffer has been  *)
(* destroyed and a mapping made has been unmapped.                         *)
C18_CreateFailureReleasesAll ==
    CreateFailedPastAllocation =>
        /\ kernel = NoSurface
        /\ Made("create_dumb_fb", "DRM_IOCTL_MODE_DESTROY_DUMB", TRUE)

(* What holds instead: on such a return the mapping is gone (it was never  *)
(* made, or munmap was called after the failed drmModeAddFB), and the dumb *)
(* buffer is still allocated with its handle in dumb_handle; a             *)
(* destroy_dumb_fb would free it, initialize() closes the device instead.  *)
C18_CreateFailureKeepsBuffer ==
    CreateFailedPastAllocation =>
        /\ kernel = [bo |-> TRUE, map |-> FALSE, fb |-> FALSE]
        /\ dumb_handle # 0 /\ fb_map = "NULL" /\ fb_id = 0
        /\ Made("create_dumb_fb", "mmap", TRUE) <=> Made("create_dumb_fb", "munmap", TRUE)
        /\ ~HasCall("DRM_IOCTL_MODE_DESTROY_DUMB")

(* The failed drmModeAddFB: mapped, then unmapped, buffer kept *)
C18_Witness ==
    /\ CreateFailedPastAllocation
    /\ Made("create_dumb_fb", "drmModeAddFB", FALSE)
    /\ Made("create_dumb_fb", "munmap", TRUE)
    /\ kernel.bo

----------------------------------------------------------------------------
(* Output selection on its own: find_connector_mode called on every        *)
(* device of up to MaxConnectors connectors.                               *)

OutputInit ==
    /\ InitStatics
    /\ g_frontend_mode = eNA
    /\ master = "none"
    /\ res \in Resources

OutputSelect ==
    /\ Idle
    /\ LET o == find_connector_mode(Begin(S, "select"))
       IN Install(Called(o.st, "initialize", "find_connector_mode", o.ret = 0))

OutputNext == OutputSelect

OutputSpec == OutputInit /\ [][OutputNext]_vars

(* The reference: the connectors found, the connected ones, those with a   *)
(* mode of the preferred size                                              *)
Outputs == IF res.null THEN <<>> ELSE res.connectors
IsPreferred(mode) == mode.hdisplay = PREFERRED_W /\ mode.vdisplay = PREFERRED_H
ConnectedOutputs ==
    { i \in DOMAIN Outputs :
        ~Outputs[i].null /\ Outputs[i].connection = DRM_MODE_CONNECTED }
PreferredOutputs ==
    { i \in ConnectedOutputs :
        \E m \in DOMAIN Outputs[i].modes : IsPreferred(Outputs[i].modes[m]) }
UsableOutputs == { i \in ConnectedOutputs : Len(Outputs[i].modes) > 0 }
Minimum(set) == CHOOSE x \in set : \A y \in set : x <= y
FirstPreferredMode(i) ==
    Outputs[i].modes[Minimum({ m \in DOMAIN Outputs[i].modes :
                                   IsPreferred(Outputs[i].modes[m]) })]
EncoderPresent(i) == Outputs[i].encoder_id # 0 /\ ~Outputs[i].encoder.null
FirstCrtc == IF Len(res.crtcs) > 0 THEN res.crtcs[1] ELSE 0
SelectReturned(ok) ==
    /\ step.kind = "select"
    /\ Made("initialize", "find_connector_mode", ok)

(* C19 as stated: find_connector_mode fails exactly when no connector is   *)
(* connected; otherwise it selects the first connected connector with a    *)
(* preferred mode and its first such mode, or else the first connected     *)
(* connector and its first mode; the crtc is that of the connector's       *)
(* encoder when it has one, else the first crtc.                           *)
C19_SelectionEqualsReference ==
    /\ SelectReturned(FALSE) <=> (step.kind = "select" /\ ConnectedOutputs = {})
    /\ SelectReturned(TRUE) =>
          LET i == IF PreferredOutputs # {} THEN Minimum(PreferredOutputs)
                   ELSE Minimum(ConnectedOutputs)
          IN /\ conn_id = i
             /\ Len(Outputs[i].modes) > 0
             /\ chosen_mode = IF PreferredOutputs # {} THEN FirstPreferredMode(i)
                               ELSE Outputs[i].modes[1]
             /\ crtc_id = IF EncoderPresent(i) THEN Outputs[i].encoder.crtc_id
                           ELSE FirstCrtc

(* C19 amended: find_connector_mode fails exactly when the resources       *)
(* cannot be read or no connected connector advertises a mode; otherwise   *)
(* it selects the first connected connector with a preferred mode and its  *)
(* first such mode, or else the first connected connector that advertises  *)
(* a mode (connected connectors without modes are passed over) and its     *)
(* first mode; the crtc is that of the connector's encoder when it has one *)
(* bound to a crtc (id not 0), else the first crtc, else 0; on failure     *)
(* conn_id, crtc_id and chosen_mode are not written.                       *)
C19_SelectionSkipsModeless ==
    /\ SelectReturned(FALSE) <=> (step.kind = "select" /\ UsableOutputs = {})
    /\ SelectReturned(FALSE) =>
          (conn_id = 0 /\ crtc_id = 0 /\ chosen_mode = NoMode)
    /\ SelectReturned(TRUE) =>
          LET i == IF PreferredOutputs # {} THEN Minimum(PreferredOutputs)
                   ELSE Minimum(UsableOutputs)
          IN /\ conn_id = i
             /\ chosen_mode = IF PreferredOutputs # {} THEN FirstPreferredMode(i)
                               ELSE Outputs[i].modes[1]
             /\ crtc_id = IF EncoderPresent(i) /\ Outputs[i].encoder.crtc_id # 0
                           THEN Outputs[i].encoder.crtc_id
                           ELSE FirstCrtc

(* C19 witness: the second connector selected by fallback, the first being *)
(* connected without modes; its encoder has no crtc, the first crtc taken  *)
C19_Witness ==
    /\ SelectReturned(TRUE)
    /\ Len(Outputs) = 2
    /\ 1 \in ConnectedOutputs
    /\ Outputs[1].modes = <<>>
    /\ PreferredOutputs = {}
    /\ conn_id = 2
    /\ chosen_mode = Mode(1024, 768, 60)
    /\ EncoderPresent(2)
    /\ crtc_id = 7

(* C19 second witness: the preferred mode of the second connector wins     *)
(* over the first connector, and its first preferred mode is taken         *)
C19_WitnessPreferred ==
    /\ SelectReturned(TRUE)
    /\ 1 \in ConnectedOutputs
    /\ Len(Outputs[1].modes) > 0
    /\ conn_id = 2
    /\ chosen_mode = Mode(1920, 1080, 50)
    /\ crtc_id = 5

----------------------------------------------------------------------------
(* The scaler on its own: each of the three versions called once on sizes  *)
(* from 1 to the bounds and on a few large ones.                           *)

(* Bounds of the model: the small source and destination sizes *)
MaxSrc == 3
MaxDst == 4

(* Large sizes: a PNG as wide or high as libpng reads by default, the      *)
(* preferred mode, and a wider mode                                        *)
LargeSrc == {1000000}
LargeDstW == {1920, 2560}
LargeDstH == {1080}

SrcSizes == (1..MaxSrc) \cup LargeSrc
DstWidths == (1..MaxDst) \cup LargeDstW
DstHeights == (1..MaxDst) \cup LargeDstH

BlitInit ==
    /\ InitStatics
    /\ g_frontend_mode = eNA
    /\ master = "none"
    /\ res = NullResources

(* helpers.c, called as main does: dest_x = 0, dest_y = fb_h / 2; also    *)
(* with dest_y = 0 and with a negative offset                              *)
Blit ==
    /\ Idle
    /\ \E sw \in SrcSizes, sh \in SrcSizes, dw \in DstWidths, dh \in DstHeights,
          dx \in {-1, 0}, half \in BOOLEAN :
         Install([Begin(S, "blit") EXCEPT
                    !.blit = scale_and_blit_to_xrgb(sw, sh, dw, dh, dx,
                                 IF half THEN dh \div 2 ELSE 0)])

BlitRegion ==
    /\ Idle
    /\ \E sw \in SrcSizes, sh \in SrcSizes, dw \in DstWidths, dh \in DstHeights :
         Install([Begin(S, "blit") EXCEPT
                    !.blit = scale_and_blit_to_xrgb_region(sw, sh, dw, dh)])

BlitOrg ==
    /\ Idle
    /\ \E sw \in SrcSizes, sh \in SrcSizes, dw \in DstWidths, dh \in DstHeights :
         Install([Begin(S, "blit") EXCEPT
                    !.blit = scale_and_blit_to_xrgb_org(sw, sh, dw, dh)])

(* helpers.c called as main of dmarquees.c calls it on the mode chosen:    *)
(* dest_x = 0, dest_y = fb_h / 2                                           *)
BlitHalf ==
    /\ Idle
    /\ \E sw \in SrcSizes, sh \in SrcSizes, dw \in DstWidths, dh \in DstHeights :
         LET fb_w == dw
             fb_h == dh
             dest_y == fb_h \div 2
         IN Install([Begin(S, "half") EXCEPT
                       !.chosen_mode = Mode(dw, dh, 60),
                       !.blit = scale_and_blit_to_xrgb(sw, sh, fb_w, fb_h, 0, dest_y)])

(* dmarquees-org.c, whose main calls its scaler on the mode chosen *)
BlitHalfOrg ==
    /\ Idle
    /\ \E sw \in SrcSizes, sh \in SrcSizes, dw \in DstWidths, dh \in DstHeights :
         Install([Begin(S, "half") EXCEPT
                    !.chosen_mode = Mode(dw, dh, 60),
                    !.blit = scale_and_blit_to_xrgb_org(sw, sh, dw, dh)])

BlitNext ==
    \/ Blit
    \/ BlitRegion
    \/ BlitOrg
    \/ BlitHalf
    \/ BlitHalfOrg

BlitSpec == BlitInit /\ [][BlitNext]_vars

(* C20 as stated: every source column the scaler indexes is in             *)
(* 0..src_w-1 and every source row in 0..src_h-1, for all source sizes     *)
(* from 1 and all destination sizes above 0.                               *)
C20_SourceCoordsInRange ==
    /\ \A sx \in blit.xs : 0 <= sx /\ sx < blit.src_w
    /\ \A sy \in blit.ys : 0 <= sy /\ sy < blit.src_h

(* What holds: the coordinates are in range whenever the products          *)
(* x * src_w and y * src_h fit in int, which they do for every image       *)
(* libpng reads by default when the target is at most 2147 wide and high;  *)
(* here, for every call but those on the 2560 wide target with the         *)
(* 1000000 wide image.                                                     *)
C20_InRangeWithoutOverflow ==
    (/\ blit.fn # "none"
     /\ blit.w - 1 <= INT_MAX \div blit.src_w
     /\ blit.h - 1 <= INT_MAX \div blit.src_h) => C20_SourceCoordsInRange

(* A call on the preferred mode with the largest image: all in range *)
C20_Witness ==
    /\ blit.fn = "scale_and_blit_to_xrgb"
    /\ blit.src_w = 1000000
    /\ Cardinality(blit.xs) = 1920
    /\ C20_SourceCoordsInRange

----------------------------------------------------------------------------
(* The aspect-fit placement of the earlier versions:                       *)
(* src/dmarquees-1.1.1.c, src/dmarquees1080p-nfg.c                         *)

(* The width drawn and the cap of the height drawn, literals in both files *)
DRAW_W == 1920
DRAW_H_CAP == 1080

(* float has 24 bits of precision: the integers below 2^24 are floats      *)
FLT_EXACT == 16777216

RECURSIVE Pow2(_)
Pow2(k) == IF k = 0 THEN 1 ELSE 2 * Pow2(k - 1)

(* The k with 2^k <= n < 2^(k+1), for n >= 1 *)
RECURSIVE Log2(_)
Log2(n) == IF n < 2 THEN 0 ELSE 1 + Log2(n \div 2)

(* (int)(a / b) for floats a, b that are positive integers: the quotient   *)
(* is rounded to the nearest float (ties to even) and then truncated.      *)
(* With n the integer part of a / b, the rounded quotient is n + 1 exactly *)
(* when a / b is within half a unit in the last place below n + 1, and the *)
(* result is n otherwise.                                                  *)
float_div_to_int(a, b) ==
    LET n == a \div b
        r == b - (a % b)
        k == Log2(n + 1)
        c == IF n + 1 = Pow2(k) THEN Pow2(25 - k) ELSE Pow2(24 - k)
    IN IF a % b = 0 THEN n
       ELSE IF r <= b \div c THEN n + 1
       ELSE n

(* c / 2 in int, for any c: the quotient truncated towards zero *)
half_int(c) == IF c >= 0 THEN c \div 2 ELSE -((-c) \div 2)

(* main of dmarquees-1.1.1.c from the memset to the blit, on the mode      *)
(* chosen and an image of iw x ih: the rectangle drawn, its place, and the *)
(* source columns and rows read.                                           *)
main_fit(mode, iw, ih) ==
    LET h0 == float_div_to_int(DRAW_W * ih, iw)
        draw_h == IF h0 > DRAW_H_CAP THEN DRAW_H_CAP ELSE h0
        draw_w == IF h0 > DRAW_H_CAP
                  THEN float_div_to_int(draw_h * iw, ih)
                  ELSE DRAW_W
        draw_x == half_int(mode.hdisplay - draw_w)
        draw_y == mode.vdisplay - draw_h
        b == scale_and_blit_to_xrgb_region(iw, ih, draw_w, draw_h)
    IN [fn |-> "main_fit", src_w |-> iw, src_h |-> ih, w |-> draw_w, h |-> draw_h,
        xs |-> b.xs, ys |-> b.ys, dest_x |-> draw_x, dest_y |-> draw_y]

RECURSIVE GCD(_, _)
GCD(a, b) == IF b = 0 THEN a ELSE GCD(b, a % b)

(* a / b is a float exactly: in lowest terms its denominator is a power of *)
(* two (a and b below 2^24)                                                *)
QuotientIsFloat(a, b) ==
    LET d == b \div GCD(a, b) IN d = Pow2(Log2(d))

(* main of dmarquees1080p-nfg.c from the computation of scale to the copy  *)
(* loop, for sizes whose scale is a float exactly: scale is num / den in   *)
(* lowest terms, ih * scale and iw * scale are exact, and y / scale is the *)
(* float quotient of y * den and num.                                      *)
main_fit_nfg(mode, iw, ih) ==
    LET h0 == (ih * DRAW_W) \div iw
        clamp == h0 > DRAW_H_CAP
        new_h == IF clamp THEN DRAW_H_CAP ELSE h0
        new_w == IF clamp THEN (iw * DRAW_H_CAP) \div ih ELSE DRAW_W
        a == IF clamp THEN DRAW_H_CAP ELSE DRAW_W
        b == IF clamp THEN ih ELSE iw
        num == a \div GCD(a, b)
        den == b \div GCD(a, b)
        x_off == half_int(mode.hdisplay - new_w)
        y_off == mode.vdisplay - new_h
        sx(x) == LET v == float_div_to_int(x * den, num)
                 IN IF v >= iw THEN iw - 1 ELSE v
        sy(y) == LET v == float_div_to_int(y * den, num)
                 IN IF v >= ih THEN ih - 1 ELSE v
    IN [fn |-> "main_fit_nfg", src_w |-> iw, src_h |-> ih, w |-> new_w, h |-> new_h,
        xs |-> IF new_h > 0 THEN { sx(x) : x \in 0..(new_w - 1) } ELSE {},
        ys |-> IF new_w > 0 THEN { sy(y) : y \in 0..(new_h - 1) } ELSE {},
        dest_x |-> x_off, dest_y |-> y_off]

(* The modes the output may have: the preferred mode of dmarquees-1.1.1.c, *)
(* that of dmarquees1080p-nfg.c, and a smaller one                         *)
FitModes == { Mode(3840, 2160, 60), Mode(1920, 1080, 60), Mode(1280, 720, 60) }

(* Image sizes: the small ones, and a few of the size of a marquee *)
FitSizes == (1..MaxSrc) \cup {360, 640, 1080, 1920}

FitInit ==
    /\ InitStatics
    /\ g_frontend_mode = eNA
    /\ master = "none"
    /\ res = NullResources

(* dmarquees-1.1.1.c draws an image on the mode chosen *)
FitDraw ==
    /\ Idle
    /\ \E mode \in FitModes, iw \in FitSizes, ih \in FitSizes :
         /\ DRAW_W * ih < FLT_EXACT
         /\ DRAW_H_CAP * iw < FLT_EXACT
         /\ Install([Begin(S, "fit") EXCEPT !.chosen_mode = mode,
                                            !.blit = main_fit(mode, iw, ih)])

(* dmarquees1080p-nfg.c draws an image on the first mode of the connector *)
FitDrawNfg ==
    /\ Idle
    /\ \E mode \in FitModes, iw \in FitSizes, ih \in FitSizes :
         /\ QuotientIsFloat(DRAW_W, iw)
         /\ QuotientIsFloat(DRAW_H_CAP, ih)
         /\ Install([Begin(S, "fit") EXCEPT !.chosen_mode = mode,
                                            !.blit = main_fit_nfg(mode, iw, ih)])

FitNext ==
    \/ FitDraw
    \/ FitDrawNfg

FitSpec == FitInit /\ [][FitNext]_vars

(* The height of the image when its width is scaled to the width of the    *)
(* mode                                                                    *)
WidthFitHeight == (chosen_mode.hdisplay * blit.src_h) \div blit.src_w

(* C21 as stated: the height drawn never exceeds the cap, and when the     *)
(* width-fit height is at most the cap the width drawn is the width of the *)
(* output mode, for every image and every mode.                            *)
C21_FitFillsModeWidth ==
    step.kind = "fit" =>
        /\ blit.h <= DRAW_H_CAP
        /\ WidthFitHeight <= DRAW_H_CAP => blit.w = chosen_mode.hdisplay

(* What holds: the height drawn never exceeds 1080; the width drawn is     *)
(* 1920 when the image scaled to 1920 wide is at most 1080 high, whatever  *)
(* the mode, and less than 1920 otherwise.                                 *)
C21_FitFills1920 ==
    step.kind = "fit" =>
        /\ blit.h <= DRAW_H_CAP
        /\ blit.w <= DRAW_W
        /\ (DRAW_W * blit.src_h) \div blit.src_w <= DRAW_H_CAP => blit.w = DRAW_W

(* On the 3840 wide mode a 1920 x 360 image is drawn 1920 wide, a quarter  *)
(* of the width in from the left                                           *)
C21_Witness ==
    /\ step.kind = "fit"
    /\ blit.fn = "main_fit"
    /\ chosen_mode.hdisplay = 3840
    /\ blit.src_w = 1920 /\ blit.src_h = 360
    /\ blit.w = 1920 /\ blit.h = 360
    /\ blit.dest_x = 960

(* On the 1280 wide mode the rectangle drawn starts left of the buffer *)
C21_WitnessOutside ==
    /\ step.kind = "fit"
    /\ chosen_mode.hdisplay = 1280
    /\ blit.dest_x < 0

----------------------------------------------------------------------------
(* C22 as stated: under the half-region fill the number of rows drawn is   *)
(* exactly half the height of the destination, odd or even, and the width  *)
(* drawn is the full width, whatever the source size.                      *)
C22_HalfHeightDrawn ==
    step.kind = "half" =>
        /\ 2 * blit.h = chosen_mode.vdisplay
        /\ blit.w = chosen_mode.hdisplay

(* C22 amended: under the half-region fill the width drawn is the full     *)
(* width of the destination and the rows drawn do not depend on the source *)
(* size; they are exactly half the height when the height is even; when it *)
(* is odd, helpers.c as main calls it draws every row from fb_h / 2 to the *)
(* bottom, one more than half rounded down, and dmarquees-org.c draws half *)
(* rounded down.                                                           *)
C22_HalfRegionFilled ==
    step.kind = "half" =>
        LET fb_h == chosen_mode.vdisplay
        IN /\ blit.w = chosen_mode.hdisplay
           /\ blit.fn = "scale_and_blit_to_xrgb" => blit.h = fb_h - (fb_h \div 2)
           /\ blit.fn = "scale_and_blit_to_xrgb_org" => blit.h = fb_h \div 2
           /\ fb_h % 2 = 0 => 2 * blit.h = fb_h

(* C22 witness: a 1 x 3 image drawn by helpers.c on a destination 4 wide   *)
(* and 3 high fills 2 rows of 4                                            *)
C22_Witness ==
    /\ step.kind = "half"
    /\ blit.fn = "scale_and_blit_to_xrgb"
    /\ blit.src_w = 1 /\ blit.src_h = 3
    /\ chosen_mode.hdisplay = 4 /\ chosen_mode.vdisplay = 3
    /\ blit.w = 4 /\ blit.h = 2
    /\ blit.ys = {0, 1}

(* C22 second witness: a wide image fills half of the preferred mode *)
C22_WitnessPreferredMode ==
    /\ step.kind = "half"
    /\ blit.src_w = 3 /\ blit.src_h = 1
    /\ chosen_mode = Mode(1920, 1080, 60)
    /\ blit.h = 540

----------------------------------------------------------------------------
(* The return of main *)

(* The value main returns: 1 from the failed initialize(), 0 from the end  *)
(* of the cleanup block                                                    *)
ExitCode == IF pc = "failed" THEN 1 ELSE 0
Exited == pc \in {"done", "failed"}
(* running is cleared by the EXIT command and by sigint_handler only *)
TerminationRequested == ~running

(* C23 as stated: main returns 0 only after a shutdown asked for by EXIT   *)
(* or SIGINT, and returns non-zero after every failure that ends the       *)
(* daemon, the failed open of the FIFO included.                           *)
C23_ZeroExactlyOnCleanShutdown ==
    Exited => (ExitCode = 0 => TerminationRequested)

(* What holds: main returns 1 from a failed initialize() only, with no     *)
(* surface created, and 0 from the cleanup block however the loop was      *)
(* left.                                                                   *)
C23_ReturnPaths ==
    [][/\ (pc' = "failed" /\ pc # "failed") =>
              (pc = "start" /\ step'.kind = "init" /\ fb_id' = 0)
       /\ (pc' = "done" /\ pc # "done") =>
              (pc = "cleanup" /\ step'.kind = "cleanup")]_vars

(* main has returned 0 after the loop was left by the break on a failed    *)
(* open of the FIFO, with no EXIT and no SIGINT                            *)
C23_Witness ==
    /\ pc = "done"
    /\ ExitCode = 0
    /\ running
    /\ step.kind = "cleanup"

(* C24 as stated: once initialize() has returned 0 the loop is left only   *)
(* with running cleared, by EXIT or SIGINT; no failure of a call leaves    *)
(* it.                                                                     *)
C24_LoopEndsOnlyOnRequest ==
    [][(pc \in {"loop", "open"} /\ pc' \notin {"loop", "open"}) => ~running']_vars

(* What holds: an iteration whose read fails or returns nothing, and one   *)
(* that takes a command, whatever fails in it (drmSetMaster,               *)
(* drmModeSetCrtc, drmDropMaster, stat, load_png_rgba, an excluded key),   *)
(* goes back to the test of the loop; the failed open alone leaves it.     *)
C24_OnlyOpenFailureBreaks ==
    [][pc = "open" =>
          /\ step'.kind \in {"poll", "read", "cmd"} => pc' = "loop"
          /\ pc' \notin {"loop", "open"} => (step'.kind = "openfail" /\ pc' = "cleanup")]_vars

(* The break: the loop left with running still set *)
C24_Witness ==
    /\ step.kind = "openfail"
    /\ pc = "cleanup"
    /\ running
    /\ fb_id # 0

----------------------------------------------------------------------------
(* Termination *)

(* The steps main takes on its own; an iteration of the loop is not one of *)
(* them, since its open of the FIFO returns only when a writer opens the   *)
(* FIFO or the open fails.                                                 *)
DaemonStep ==
    \/ Initialize
    \/ LoopEnter
    \/ LoopExit
    \/ Cleanup
    \/ EndStep

(* main runs whenever it is not blocked, and the clock advances up to the  *)
(* bound of the model; the writers of the FIFO, the failures of open and   *)
(* the peer act or not as they please.                                     *)
FairSpec == Init /\ [][Next]_vars /\ WF_vars(DaemonStep) /\ WF_vars(Tick)

(* C25 as stated, first part: once running is cleared, by EXIT or by       *)
(* SIGINT, no further read of the FIFO delivers bytes to the loop.         *)
C25_NoCommandAfterTermination ==
    [][~running => step'.kind \notin {"read", "cmd"}]_vars

(* C25 as stated, second part: once running is cleared main reaches its    *)
(* return.                                                                 *)
C25_TerminatesAfterRequest ==
    ~running ~> Exited

(* What holds: a command is taken with running cleared only when SIGINT    *)
(* came while main was in the open of the FIFO, and then only one; after   *)
(* EXIT none is; the cleanup block runs at most once.                      *)
C25_AtMostOneCommandAfterSigint ==
    [][/\ (~running /\ step'.kind \in {"read", "cmd"}) => (pc = "open" /\ pc' = "loop")
       /\ (~running /\ pc = "loop") => pc' \in {"loop", "cleanup"}
       /\ pc = "done" => pc' = "done"]_vars

(* A ROM image drawn after SIGINT had cleared running *)
C25_Witness ==
    /\ step.kind = "cmd"
    /\ step.ctype = CMD_ROM
    /\ ~running
    /\ fb = Image(IMAGE_DIR, <<"s","f">>)

----------------------------------------------------------------------------
(* Commit attempts *)

(* The calls of drmModeSetCrtc of the step, as positions in calls *)
Commits == { i \in DOMAIN calls : calls[i].call = "drmModeSetCrtc" }
(* The call at i follows a drmSetMaster of the same function that          *)
(* succeeded / that failed                                                 *)
AfterAcquisition(i, ok) ==
    \E j \in 1..(i - 1) :
        /\ calls[j].call = "drmSetMaster"
        /\ calls[j].fn = calls[i].fn
        /\ calls[j].ret = ok

(* C26 as stated: every drmModeSetCrtc the daemon calls, in initialize()   *)
(* and in every retry, follows a drmSetMaster of the same step that        *)
(* succeeded; none follows one that failed.                                *)
C26_CommitOnlyAfterAcquisition ==
    \A i \in Commits : AfterAcquisition(i, TRUE) /\ ~AfterAcquisition(i, FALSE)

(* C26 amended: in a retry (try_reset_crtc) drmModeSetCrtc is called only  *)
(* after the drmSetMaster of that call has succeeded, and not at all when  *)
(* it has failed; initialize() calls drmSetMaster once, ignores its        *)
(* failure, and calls drmModeSetCrtc once whether it succeeded or not; no  *)
(* other function commits.                                                 *)
C26_RetryCommitsOnlyAfterAcquisition ==
    /\ \A i \in Commits :
          /\ calls[i].fn \in {"try_reset_crtc", "initialize"}
          /\ calls[i].fn = "try_reset_crtc" =>
                (AfterAcquisition(i, TRUE) /\ ~AfterAcquisition(i, FALSE))
          /\ calls[i].fn = "initialize" =>
                (AfterAcquisition(i, TRUE) \/ AfterAcquisition(i, FALSE))
    /\ Made("try_reset_crtc", "drmSetMaster", FALSE) => Commits = {}
    /\ (step.kind = "init" /\ pc = "loop") => Cardinality(Commits) = 1

(* C26 witness: a retry that acquired and committed, after an              *)
(* initialize() whose commit could not have been made as master            *)
C26_Witness ==
    /\ step.kind = "poll"
    /\ Made("try_reset_crtc", "drmSetMaster", TRUE)
    /\ Made("try_reset_crtc", "drmModeSetCrtc", TRUE)
    /\ ~g_needs_crtc_reset

(* C26 second witness: initialize() called drmModeSetCrtc after its        *)
(* drmSetMaster had failed                                                 *)
C26_WitnessInitialize ==
    /\ step.kind = "init"
    /\ Made("initialize", "drmSetMaster", FALSE)
    /\ Made("initialize", "drmModeSetCrtc", FALSE)
    /\ pc = "loop"


(* The one call of a try_reset_crtc whose drmSetMaster failed *)
FailedAcquisition == [fn |-> "try_reset_crtc", call |-> "drmSetMaster", ret |-> FALSE]

(* C27: when the drmSetMaster of try_reset_crtc fails, try_reset_crtc      *)
(* returns false and has made no other call: no drmModeSetCrtc, no second  *)
(* drmSetMaster, no drmDropMaster; the bottom half of the buffer is as it  *)
(* was and g_needs_crtc_reset, set before the call, is still set.          *)
C27_FailedAcquisitionReturnsAtOnce ==
    /\ [](pc = "open" =>
            \A e \in PollOutcomes :
                LET r == try_reset_crtc(S, e)
                IN ~drmSetMaster(S, "try_reset_crtc", e.set).ret =>
                      /\ ~r.ret
                      /\ r.st.calls = Append(calls, FailedAcquisition)
                      /\ r.st.fb = fb
                      /\ r.st.g_needs_crtc_reset = g_needs_crtc_reset)
    /\ [][Made("try_reset_crtc", "drmSetMaster", FALSE)' =>
              /\ TryCalls' = <<FailedAcquisition>>
              /\ ~HasCall("drmModeSetCrtc")'
              /\ fb' = fb
              /\ g_needs_crtc_reset /\ g_needs_crtc_reset']_vars

(* C27 witness: a retry refused while the peer is master, with the image   *)
(* of a ROM in the buffer and the update still pending                     *)
C27_Witness ==
    /\ step.kind = "poll"
    /\ TryCalls = <<FailedAcquisition>>
    /\ master = "peer"
    /\ g_needs_crtc_reset
    /\ fb = Image(IMAGE_DIR, <<"s","f">>)


----------------------------------------------------------------------------
(* The end of the holdoff *)

(* The poll being taken finds the holdoff in force and its end due: the    *)
(* hold is at least RA_INIT_HOLD_SEC old, or its probe finds the master    *)
(* free after the previous probe found it held.                            *)
HoldoffEndDue ==
    /\ g_in_ra_init_hold
    /\ step'.kind = "poll"
    /\ HoldTimedOut \/ (prev_master_held /\ ProbeFree')

(* C28 as stated: the poll at which the end of the holdoff is due clears   *)
(* g_in_ra_init_hold and calls drmModeSetCrtc for the pending update.      *)
C28_HoldoffEndCommits ==
    [][HoldoffEndDue => (~g_in_ra_init_hold' /\ HasCall("drmModeSetCrtc")')]_vars

(* C28 amended: the poll at which the end of the holdoff is due probes     *)
(* once, clears g_in_ra_init_hold and calls try_reset_crtc once in that    *)
(* same poll; the drmModeSetCrtc of the pending update is called in it     *)
(* exactly when the drmSetMaster of try_reset_crtc succeeds, so not while  *)
(* the peer holds the master at the timeout.  A holdoff is in force only   *)
(* with an update pending in RA mode.                                      *)
C28_HoldoffEndRetries ==
    /\ [](g_in_ra_init_hold => (g_needs_crtc_reset /\ g_frontend_mode = eRA))
    /\ [][HoldoffEndDue =>
              /\ ~g_in_ra_init_hold'
              /\ Len(ProbeCalls') >= 1
              /\ Len(TryCalls') >= 1
              /\ TryCalls'[1].call = "drmSetMaster"
              /\ Len(SelectSeq(TryCalls', LAMBDA c : c.call = "drmSetMaster")) = 1
              /\ HasCall("drmModeSetCrtc")' <=> TryCalls'[1].ret
              /\ calls' = ProbeCalls' \o TryCalls']_vars

(* C28 witness: the holdoff ended by its timeout while the peer was        *)
(* master: probe and retry both refused, update still pending              *)
C28_Witness ==
    /\ step.kind = "poll"
    /\ ProbeHeld
    /\ TryCalls = <<FailedAcquisition>>
    /\ ~g_in_ra_init_hold
    /\ g_needs_crtc_reset
    /\ HoldTimedOut
    /\ master = "peer"

(* C28 second witness: the holdoff ended before its timeout by the probe   *)
(* finding the master free again, and the commit made                      *)
C28_WitnessEdge ==
    /\ step.kind = "poll"
    /\ ProbeFree
    /\ Made("try_reset_crtc", "drmModeSetCrtc", TRUE)
    /\ ~HoldTimedOut
    /\ ~g_needs_crtc_reset


----------------------------------------------------------------------------
(* The wait for the next command *)

(* An update is pending in RA mode and main is in the open of the FIFO *)
RetryPendingInOpen ==
    /\ pc = "open"
    /\ running
    /\ g_needs_crtc_reset
    /\ g_frontend_mode = eRA

(* The open of the FIFO has returned: a writer has opened the FIFO (and    *)
(* written or not), or the open has failed                                 *)
FifoOpenReturned == step.kind \in {"poll", "read", "cmd", "openfail"}

(* C29 as stated: while an update is pending in RA mode the retry is       *)
(* eventually attempted even if no process ever opens the FIFO again: from *)
(* every state with the update pending, either the retry is attempted,     *)
(* or the open of the FIFO returns, or SIGINT ends the wait.               *)
C29_RetryWithoutWriter ==
    RetryPendingInOpen ~> (Attempted \/ FifoOpenReturned \/ ~running)

(* What holds: the holdoff is examined and the retry attempted only by an  *)
(* iteration whose open of the FIFO has returned and whose read has        *)
(* returned n <= 0; nothing else clears g_in_ra_init_hold but a command.   *)
C29_RetryOnlyAfterOpenReturns ==
    [][/\ (Attempted' \/ ProbeCalls' # <<>>) => (pc = "open" /\ step'.kind = "poll")
       /\ (g_in_ra_init_hold /\ ~g_in_ra_init_hold') =>
              (pc = "open" /\ step'.kind \in {"poll", "cmd"})]_vars

(* main in the open of the FIFO with the holdoff still in force after its  *)
(* deadline has passed                                                     *)
C29_Witness ==
    /\ RetryPendingInOpen
    /\ Idle
    /\ g_in_ra_init_hold
    /\ now - g_ra_init_hold_start > RA_INIT_HOLD_SEC - 1
    /\ now = MaxTime


----------------------------------------------------------------------------
(* The order of the teardown *)

(* The releases destroy_dumb_fb has made in the step, in order *)
TeardownCalls == SelectSeq(calls, LAMBDA c : c.fn = "destroy_dumb_fb")
TeardownOrder == [i \in DOMAIN TeardownCalls |-> TeardownCalls[i].call]

(* C30 as stated: the teardown at shutdown unmaps the surface, then        *)
(* unregisters the framebuffer, then frees the buffer, each exactly once.  *)
C30_UnmapUnregisterFree ==
    step.kind = "cleanup" =>
        TeardownOrder = <<"munmap", "drmModeRmFB", "DRM_IOCTL_MODE_DESTROY_DUMB">>

(* C30: the teardown at shutdown unregisters the framebuffer, then unmaps  *)
(* the surface, then frees the buffer; each of the three releases is made  *)
(* exactly once and finds its resource, and no other step releases any.    *)
C30_UnregisterUnmapFree ==
    /\ [](step.kind = "cleanup" =>
            TeardownCalls =
                << [fn |-> "destroy_dumb_fb", call |-> "drmModeRmFB", ret |-> TRUE],
                   [fn |-> "destroy_dumb_fb", call |-> "munmap", ret |-> TRUE],
                   [fn |-> "destroy_dumb_fb",
                    call |-> "DRM_IOCTL_MODE_DESTROY_DUMB", ret |-> TRUE] >>)
    /\ [](step.kind # "cleanup" => TeardownCalls = <<>>)
    /\ [][step'.kind = "cleanup" => (pc = "cleanup" /\ pc' = "done")]_vars
    /\ [][pc = "done" => pc' = "done" /\ step'.kind # "cleanup"]_vars

(* The cleanup block has torn the surface down after a loop that EXIT or   *)
(* SIGINT ended                                                            *)
C30_Witness ==
    /\ step.kind = "cleanup"
    /\ pc = "done"
    /\ ~running
    /\ Len(TeardownCalls) = 3
    /\ fb_id = 0 /\ fb_map = "NULL" /\ dumb_handle = 0
    /\ kernel = [bo |-> FALSE, map |-> FALSE, fb |-> FALSE]

(* The same after the open of the FIFO has failed *)
C30_WitnessOpenFail ==
    /\ step.kind = "cleanup"
    /\ running
    /\ Len(TeardownCalls) = 3


----------------------------------------------------------------------------
(* The throttle of the failure messages *)

(* What an attempt leaves that the rest of the program reads *)
ArbitrationState(s) ==
    [g_is_master |-> s.g_is_master,
     g_needs_crtc_reset |-> s.g_needs_crtc_reset,
     g_in_ra_init_hold |-> s.g_in_ra_init_hold,
     g_ra_init_hold_start |-> s.g_ra_init_hold_start,
     prev_master_held |-> s.prev_master_held,
     g_current_image_path |-> s.g_current_image_path,
     master |-> s.master,
     calls |-> s.calls]

(* The state with the last message written at clock reading g *)
LastLoggedAt(g) == [S EXCEPT !.g_last_crtc_error_log = g]

(* C31: a failure message of try_reset_crtc is written only when the clock *)
(* reads at least ERROR_LOG_THROTTLE_SEC more than at the last message, a  *)
(* step writes at most one, and g_last_crtc_error_log is the reading of    *)
(* the last one; an attempt made with the last message in the current      *)
(* window (suppressed) and one made with it long past (logged) return the  *)
(* same result and leave the same mastership flag, deferred-commit flag    *)
(* and holdoff state, and so does the poll.                                *)
C31_FailureMessagesThrottled ==
    /\ [](Len(step.logs) <= 1)
    /\ [][/\ \A i \in DOMAIN step'.logs :
                /\ step'.logs[i] - g_last_crtc_error_log >= ERROR_LOG_THROTTLE_SEC
                /\ g_last_crtc_error_log' = step'.logs[i]
          /\ (step'.logs = <<>>) => g_last_crtc_error_log' = g_last_crtc_error_log
          /\ (step'.logs # <<>>) => (step'.kind = "poll" /\ Attempted')]_vars
    /\ [](pc = "open" /\ Idle =>
            \A e \in PollOutcomes :
                LET logged == LastLoggedAt(0)
                    suppressed == LastLoggedAt(now)
                IN /\ try_reset_crtc(logged, e).ret = try_reset_crtc(suppressed, e).ret
                   /\ ArbitrationState(try_reset_crtc(logged, e).st)
                          = ArbitrationState(try_reset_crtc(suppressed, e).st)
                   /\ ArbitrationState(main_poll(logged, e))
                          = ArbitrationState(main_poll(suppressed, e)))

(* A failed attempt whose message is suppressed: the last message was      *)
(* written at the same clock reading                                       *)
C31_Witness ==
    /\ step.kind = "poll"
    /\ AttemptFailed
    /\ step.logs = <<>>
    /\ g_last_crtc_error_log = now
    /\ g_needs_crtc_reset

(* A failed attempt whose message is written, after an earlier one *)
C31_WitnessLogged ==
    /\ step.kind = "poll"
    /\ AttemptFailed
    /\ step.logs = <<now>>
    /\ now > 2


----------------------------------------------------------------------------
(* The arbitration flags between two steps of the loop *)

(* C32: whenever main is at the test of the loop or waits in the open of   *)
(* the FIFO, the holdoff flag implies the deferred-commit flag and the     *)
(* deferred-commit flag implies RA mode.                                   *)
C32_HoldImpliesPendingImpliesRA ==
    pc \in {"loop", "open"} =>
        /\ g_in_ra_init_hold => g_needs_crtc_reset
        /\ g_needs_crtc_reset => g_frontend_mode = eRA

(* main waits for a command with the holdoff over and the commit still     *)
(* pending after a failed attempt                                          *)
C32_Witness ==
    /\ pc = "open"
    /\ Idle
    /\ ~g_in_ra_init_hold
    /\ g_needs_crtc_reset
    /\ g_frontend_mode = eRA
    /\ g_last_crtc_error_log > 0

(* main waits for a command with the holdoff in force *)
C32_WitnessHold ==
    /\ pc = "open"
    /\ Idle
    /\ g_in_ra_init_hold
    /\ g_needs_crtc_reset
    /\ now > g_ra_init_hold_start


----------------------------------------------------------------------------
(* When the loop tries to take DRM master *)

(* A deferred commit has succeeded and no command has arrived since: the   *)
(* flag is clear and the name of the image committed is still on record    *)
CommittedAndQuiet ==
    /\ ~g_needs_crtc_reset
    /\ g_current_image_path # <<>>

(* C33: after initialize, a step calls drmSetMaster (in the probe or in    *)
(* try_reset_crtc) only if it is a poll that found RA mode and a deferred  *)
(* commit pending; a poll in SA or NA mode, and a poll after a deferred    *)
(* commit has succeeded with no command since, makes no call at all and    *)
(* leaves DRM master as it is.                                             *)
C33_AcquireOnlyInPendingRAPoll ==
    [][/\ (pc # "start" /\ HasCall("drmSetMaster")') =>
              /\ step'.kind = "poll"
              /\ g_needs_crtc_reset
              /\ g_frontend_mode = eRA
       /\ (step'.kind = "poll" /\ (g_frontend_mode # eRA \/ CommittedAndQuiet)) =>
              /\ calls' = <<>>
              /\ master' = master
              /\ g_is_master' = g_is_master]_vars

(* A poll in RA mode with the commit pending has made its attempt *)
C33_Witness ==
    /\ step.kind = "poll"
    /\ Attempted
    /\ g_frontend_mode = eRA

(* A poll after a successful deferred commit has made no call *)
C33_WitnessQuiet ==
    /\ step.kind = "poll"
    /\ calls = <<>>
    /\ g_frontend_mode = eRA
    /\ CommittedAndQuiet
    /\ master = "none"


----------------------------------------------------------------------------
(* The deferred commit under polls that keep coming *)

(* A second passes while the clock reads MaxTime: the readings are kept    *)
(* relative to the clock, so the two recorded times move back by one.  A   *)
(* recorded time that reaches 0 is at least MaxTime old, which is past     *)
(* both the holdoff and the throttle window.                               *)
ClockShift ==
    /\ Idle
    /\ pc = "open"
    /\ now = MaxTime
    /\ Install([S EXCEPT
           !.g_ra_init_hold_start = IF @ > 0 THEN @ - 1 ELSE 0,
           !.g_last_crtc_error_log = IF @ > 0 THEN @ - 1 ELSE 0])

RetryNext == Next \/ ClockShift

(* The daemon with a clock that does not stop: time(NULL) goes on rising   *)
(* while main waits in the open of the FIFO.                               *)
RetrySpec == Init /\ [][RetryNext]_vars /\ SF_vars(Tick \/ ClockShift)

(* The step taken is no command *)
NoCommandStep == step'.kind \notin {"read", "cmd"}

(* Every drmSetMaster and drmModeSetCrtc of the step taken succeeds *)
AcquireAndCommitSucceed ==
    \A i \in DOMAIN calls' :
        calls'[i].call \in {"drmSetMaster", "drmModeSetCrtc"} => calls'[i].ret

(* The step taken is a poll *)
PollStep == step'.kind = "poll"

(* A deferred commit is pending in RA mode *)
CommitPending == g_needs_crtc_reset /\ g_frontend_mode = eRA

(* C34: if from some point on no command arrives and every acquisition     *)
(* and commit succeeds, and polls keep occurring, then a deferred commit   *)
(* pending in RA mode does not stay pending: from some point on the flag   *)
(* is clear, and with no command to clear it only a successful commit of   *)
(* try_reset_crtc does so.                                                 *)
C34_PendingCommitSucceeds ==
    /\ (/\ <>[][NoCommandStep]_vars
        /\ <>[][AcquireAndCommitSucceed]_vars
        /\ []<><<PollStep>>_vars)
       => <>[](~CommitPending)
    /\ [][(g_needs_crtc_reset /\ ~g_needs_crtc_reset' /\ NoCommandStep) =>
              (PollStep /\ Made("try_reset_crtc", "drmModeSetCrtc", TRUE)')]_vars

(* A poll has committed the pending update at the timeout of a holdoff in  *)
(* which the master was never seen held                                    *)
C34_Witness ==
    /\ step.kind = "poll"
    /\ Made("try_reset_crtc", "drmModeSetCrtc", TRUE)
    /\ ~g_needs_crtc_reset
    /\ g_frontend_mode = eRA
    /\ now = MaxTime
    /\ g_ra_init_hold_start = MaxTime - RA_INIT_HOLD_SEC
    /\ ~prev_master_held
    /\ g_last_crtc_error_log = 0


----------------------------------------------------------------------------
(* The early end of the holdoff *)

(* The poll being taken ends the holdoff before its timeout *)
HoldoffEndsEarly ==
    /\ g_in_ra_init_hold
    /\ ~HoldTimedOut
    /\ step'.kind = "poll"
    /\ ~g_in_ra_init_hold'

(* C35 as stated: a poll ends the holdoff before its timeout only if an    *)
(* earlier probe of this same holdoff found the master held and its own    *)
(* probe finds it free; what prev_master_held keeps from an earlier        *)
(* holdoff does not end it.                                                *)
C35_EarlyEndOnlyByEdgeInHoldoff ==
    [][HoldoffEndsEarly => (held_seen /\ ProbeFree')]_vars

(* What holds: the early end is decided by prev_master_held, whichever     *)
(* holdoff its value dates from, and nothing but a probe assigns it.       *)
C35_EarlyEndByRememberedProbe ==
    [][/\ HoldoffEndsEarly => (prev_master_held /\ ProbeFree')
       /\ (prev_master_held' # prev_master_held) =>
              (step'.kind = "poll" /\ g_in_ra_init_hold /\ ProbeCalls' # <<>>)
       /\ held_seen => (prev_master_held /\ g_in_ra_init_hold)]_vars

(* The first poll of a holdoff has ended it early on a probe result kept   *)
(* from the holdoff before                                                 *)
C35_Witness ==
    /\ step.kind = "poll"
    /\ ProbeFree
    /\ ~g_in_ra_init_hold
    /\ ~HoldTimedOut
    /\ Attempted
    /\ g_ra_init_hold_start = now


----------------------------------------------------------------------------
(* The mastership flag *)

(* C36 as stated: whenever main is at the test of the loop or waits in the *)
(* open of the FIFO, g_is_master is true exactly when this process holds   *)
(* DRM master.                                                             *)
C36_FlagEqualsMastership ==
    pc \in {"loop", "open"} => (g_is_master <=> master = "self")

(* What holds: the flag is set only while this process holds DRM master;   *)
(* the master is held with the flag clear only after a drmDropMaster of    *)
(* the probe has failed.                                                   *)
C36_FlagImpliesMastership ==
    /\ [](pc \in {"loop", "open"} => (g_is_master => master = "self"))
    /\ [][(pc \in {"loop", "open"} /\ (g_is_master <=> master = "self")
              /\ ~(g_is_master' <=> master' = "self")) =>
              Made("is_drm_master_held_by_other", "drmDropMaster", FALSE)']_vars

(* The probe has acquired the master and failed to release it *)
C36_Witness ==
    /\ step.kind = "poll"
    /\ Made("is_drm_master_held_by_other", "drmDropMaster", FALSE)
    /\ ~g_is_master
    /\ master = "self"


----------------------------------------------------------------------------
(* Surface updates and the deferred commit *)

(* The step has written into the surface: a memset or a blit *)
SurfaceModified == HasCall("memset") \/ HasCall("scale_and_blit_to_xrgb")

(* C37 as stated: a command step that ends in RA mode and has written into *)
(* the surface (a blit, or only the clear to black when the default image  *)
(* does not load) has armed the deferred commit.                           *)
C37_ModificationArmsCommit ==
    (step.kind = "cmd" /\ g_frontend_mode = eRA /\ SurfaceModified) =>
        (Armed /\ g_needs_crtc_reset /\ g_in_ra_init_hold)

(* What holds: the commit is armed when an image has been drawn and the    *)
(* mastership flag is clear; a step that only cleared the surface, or ran  *)
(* with the flag set, leaves no commit pending.                            *)
C37_DrawnImageArmsCommit ==
    (step.kind = "cmd" /\ g_frontend_mode = eRA) =>
        /\ (ImageDrawn /\ ~g_is_master) => (Armed /\ g_needs_crtc_reset)
        /\ (~ImageDrawn \/ g_is_master) => (~Armed /\ ~g_needs_crtc_reset)

(* A command in RA mode has cleared the surface to black, the default      *)
(* image has not loaded, and no commit is pending                          *)
C37_Witness ==
    /\ step.kind = "cmd"
    /\ g_frontend_mode = eRA
    /\ fb = Black
    /\ Made("show_default_marquee", "load_png_rgba", FALSE)
    /\ ~g_needs_crtc_reset
    /\ ~g_is_master


----------------------------------------------------------------------------
(* An excluded key and the pending commit *)

(* C38 as stated: a key that game_has_multiple_screens excludes leaves the *)
(* deferred-commit flag, the holdoff flag, the holdoff start and the       *)
(* pending image name as they were, so a commit pending before it is       *)
(* pending after it.                                                       *)
C38_ExcludedKeepsPendingCommit ==
    [][KeyExcluded' =>
          UNCHANGED <<g_needs_crtc_reset, g_in_ra_init_hold,
                      g_ra_init_hold_start, g_current_image_path>>]_vars

(* What holds: an excluded key cancels the pending commit as every command *)
(* does: the two flags are cleared and the image name is emptied before    *)
(* the exclusion is looked up; the holdoff start and the mastership are    *)
(* left alone, and the next polls make no attempt.                         *)
C38_ExcludedCancelsPendingCommit ==
    /\ [][KeyExcluded' =>
              /\ ~g_needs_crtc_reset'
              /\ ~g_in_ra_init_hold'
              /\ g_current_image_path' = <<>>
              /\ UNCHANGED <<g_ra_init_hold_start, g_is_master, master,
                             prev_master_held>>]_vars
    /\ [][(step'.kind = "poll" /\ g_current_image_path = <<>>) => calls' = <<>>]_vars

(* An excluded key has arrived in RA mode while the commit of a ROM image  *)
(* was pending in its holdoff                                              *)
C38_Witness ==
    /\ KeyExcluded
    /\ step.held
    /\ step.mode = eRA
    /\ fb = Image(IMAGE_DIR, <<"s","f">>)
    /\ ~g_needs_crtc_reset
    /\ ~g_in_ra_init_hold
    /\ g_current_image_path = <<>>


----------------------------------------------------------------------------
(* The EXIT command *)

(* The step took the EXIT command *)
ExitCommand == step.kind = "cmd" /\ step.ctype = CMD_EXIT

(* C39 as stated: the EXIT command clears running and does nothing else:   *)
(* it makes no call (no exclusion lookup, no image lookup, no write into   *)
(* the surface) and arms no holdoff.                                       *)
C39_ExitOnlySetsFlag ==
    [][ExitCommand' =>
          /\ ~running'
          /\ calls' = <<>>
          /\ fb' = fb
          /\ ~g_in_ra_init_hold']_vars

(* What holds: EXIT clears running and is then handled as the ROM key      *)
(* "EXIT": the exclusion is looked up, and unless the key is excluded the  *)
(* image EXIT.png is looked up and the surface is written (the default     *)
(* marquee or black when the image is missing or corrupt); in RA mode a    *)
(* drawn image arms the holdoff.  The loop ends at its next test.          *)
C39_ExitHandledAsRomKey ==
    [][ExitCommand' =>
          /\ ~running'
          /\ pc' = "loop"
          /\ Len(calls') >= 1
          /\ calls'[1].call = "game_has_multiple_screens"
          /\ ~KeyExcluded' =>
                /\ HasCall("stat")'
                /\ HasCall("memset")'
                /\ fb' \in {Black,
                            Image(DEF_MARQUEE_DIR,
                                  default_marquee_name_for(g_frontend_mode)),
                            Image(IMAGE_DIR, tEXIT)}
          /\ (ImageDrawn' /\ g_frontend_mode = eRA /\ ~g_is_master) =>
                g_in_ra_init_hold']_vars

(* EXIT has drawn the default marquee over a ROM image and armed a holdoff *)
C39_Witness ==
    /\ ExitCommand
    /\ ~running
    /\ fb = Image(DEF_MARQUEE_DIR, DEF_RA_MARQUEE_NAME)
    /\ Armed
    /\ g_in_ra_init_hold
    /\ Made("main", "stat", FALSE)


----------------------------------------------------------------------------
(* Several lines in one read *)

(* What one read of the FIFO delivers when the writer has written one or   *)
(* more lines before main reads                                            *)
LineBuffers ==
    { <<"s","f",LF>>,
      <<"s","f",LF,"x","y","z",LF>>,
      tRA \o <<LF>> \o <<"s","f",LF>>,
      <<"s","f",LF>> \o tEXIT \o <<LF>>,
      tEXIT \o <<LF>>,
      tSA \o <<LF>> \o tNA \o <<LF>> \o tCLEAR \o <<LF>>,
      <<LF>> }

(* The lines of a buffer: its segments up to each LF, and what follows the *)
(* last LF if anything does                                                *)
RECURSIVE SplitLines(_, _)
SplitLines(buf, line) ==
    IF buf = <<>>
    THEN IF line = <<>> THEN <<>> ELSE <<line>>
    ELSE IF Head(buf) = LF
    THEN <<line>> \o SplitLines(Tail(buf), <<>>)
    ELSE SplitLines(Tail(buf), Append(line, Head(buf)))

(* The commands written: the lines, trimmed, that are not blank *)
TrimmedLines(lines) == [i \in DOMAIN lines |-> trim(lines[i])]
Lines(buf) ==
    SelectSeq(TrimmedLines(SplitLines(buf, <<>>)), LAMBDA l : l # <<>>)

(* A writer has written one or more lines and main's read returns them all *)
ReadLines ==
    /\ Idle
    /\ pc = "open"
    /\ \E buf \in LineBuffers, x \in CommandOutcomes :
         /\ (x.img = "ok" /\ ~x.excluded) => trim(buf) \in ImageFiles
         /\ Install([main_command(Begin(S, "read"), buf, x) EXCEPT !.pc = "loop"])

ReadNext ==
    \/ Initialize
    \/ LoopEnter
    \/ ReadLines
    \/ LoopExit
    \/ Cleanup
    \/ EndStep

(* The daemon fed by a writer whose lines arrive one or several per read *)
ReadSpec == Init /\ [][ReadNext]_vars

(* The tokens the step has dispatched, in order: main dispatches once per  *)
(* read that is not blank                                                  *)
Dispatched == IF step.kind = "cmd" THEN <<step.cmd>> ELSE <<>>

(* C40 as stated: the commands a read dispatches are the lines it          *)
(* delivered, one command per line, in the order written.                  *)
C40_EachLineDispatched ==
    step.kind \in {"read", "cmd"} => Dispatched = Lines(step.buf)

(* What holds: a read dispatches at most one command, whose token is the   *)
(* whole buffer without its leading and trailing whitespace; the LF        *)
(* between two lines stays inside the token, which then matches no command *)
(* word and is handled as a ROM key.                                       *)
C40_OneTokenPerRead ==
    step.kind \in {"read", "cmd"} =>
        /\ Dispatched = IF trim(step.buf) = <<>> THEN <<>> ELSE <<trim(step.buf)>>
        /\ Len(Lines(step.buf)) > 1 =>
              /\ step.ctype = CMD_ROM
              /\ \E i \in DOMAIN step.cmd : step.cmd[i] = LF
              /\ running

(* A read has delivered the two lines sf and EXIT and dispatched one ROM   *)
(* key                                                                     *)
C40_Witness ==
    /\ step.kind = "cmd"
    /\ Lines(step.buf) = << <<"s","f">>, tEXIT >>
    /\ step.cmd = <<"s","f",LF>> \o tEXIT
    /\ step.ctype = CMD_ROM
    /\ running

====
